---------------------------- MODULE Spec2Model ----------------------------
(***************************************************************************)
(* Question deduplication and answer cache of the tutoring bot.            *)
(*                                                                         *)
(* The model follows src/enhanced_question_deduplication.py (the           *)
(* EnhancedQuestionDeduplicator) and the cached_scientific_questions       *)
(* functions of src/database.py.                                           *)
(*                                                                         *)
(* Scores are exact rationals <<numerator, denominator>>; on the question  *)
(* texts of the model the comparisons agree with the code's floating-point *)
(* comparisons.                                                            *)
(***************************************************************************)
EXTENDS Integers, Sequences, FiniteSets, TLC

(***************************************************************************)
(* Bounds of the model.                                                    *)
(***************************************************************************)
\* number of rows ever inserted (the SERIAL id counter stops there)
MaxId == 2
\* largest value of times_used a row may reach
MaxUses == 2
\* size of the recency pool, standing for limit=200 of the pool fetch
PoolLimit == 2
\* number of rows of a store that a lookup starts from
MaxRows == 3
\* number of interactions the bot logs
MaxInteractions == 2

(***************************************************************************)
(* The question texts, image hashes and answers the callers pass.          *)
(***************************************************************************)
None == "None"

\* the texts find_similar_question is asked about
Texts == {"NaCl 5 acid", "NaCl 5 acd", "NaCl", "why"}
\* the texts that callers ask to cache
CachedTexts == {"NaCl 5 acid", "why"}
Hashes == {"h1"}
\* the answer text cache_question is given, and the texts of a correction
CachedAnswers == {"generated"}
Answers == {"generated", "corrected"}
Metadata == {None, "corrected"}
CorrectionSources == {"manual_correction"}
\* min_usage of the maintenance sweep (3 is the default)
MinUsages == {2, 3}

Min(a, b) == IF a < b THEN a ELSE b

(***************************************************************************)
(* Signature extractor, on the texts of the model.                         *)
(***************************************************************************)
\* _extract_chemical_formulas: capitalised tokens, upper-cased
_extract_chemical_formulas(text) ==
    CASE text = "NaCl 5 acid" -> {"NACL"}
      [] text = "NaCl 5 acd"  -> {"NACL"}
      [] text = "NaCl"        -> {"NACL"}
      [] OTHER                -> {}

\* _extract_numbers_and_units: numbers with a unit and standalone numbers
_extract_numbers_and_units(text) ==
    CASE text = "NaCl 5 acid" -> {"5"}
      [] text = "NaCl 5 acd"  -> {"5"}
      [] OTHER                -> {}

\* _extract_chemistry_keywords: vocabulary terms contained in the text
_extract_chemistry_keywords(text) ==
    CASE text = "NaCl 5 acid" -> {"acid"}
      [] OTHER                -> {}

\* _extract_question_fingerprint: lower-cased, digit runs removed, whitespace
\* collapsed; as a sequence of characters
_extract_question_fingerprint(text) ==
    CASE text = "NaCl 5 acid" -> <<"n","a","c","l"," ","a","c","i","d">>
      [] text = "NaCl 5 acd"  -> <<"n","a","c","l"," ","a","c","d">>
      [] text = "NaCl"        -> <<"n","a","c","l">>
      [] OTHER                -> <<"w","h","y">>

_create_question_signature(text) ==
    [fingerprint |-> _extract_question_fingerprint(text),
     formulas    |-> _extract_chemical_formulas(text),
     numbers     |-> _extract_numbers_and_units(text),
     keywords    |-> _extract_chemistry_keywords(text)]

(***************************************************************************)
(* Similarity scorer.                                                      *)
(***************************************************************************)
\* a[i .. i+k-1] = b[j .. j+k-1]
CommonAt(a, b, i, j, k) == \A x \in 0..(k-1) : a[i+x] = b[j+x]

HasBlock(a, b, k) ==
    \E i \in 1..(Len(a)-k+1) : \E j \in 1..(Len(b)-k+1) : CommonAt(a, b, i, j, k)

\* SequenceMatcher.find_longest_match: the longest common block, the earliest
\* in a and then the earliest in b
find_longest_match(a, b) ==
    LET k == CHOOSE n \in 0..Min(Len(a), Len(b)) :
                 /\ HasBlock(a, b, n)
                 /\ \A m \in (n+1)..Min(Len(a), Len(b)) : ~HasBlock(a, b, m)
        i == CHOOSE p \in 1..(Len(a)-k+1) :
                 /\ \E j \in 1..(Len(b)-k+1) : CommonAt(a, b, p, j, k)
                 /\ \A q \in 1..(p-1) :
                        ~\E j \in 1..(Len(b)-k+1) : CommonAt(a, b, q, j, k)
        j == CHOOSE p \in 1..(Len(b)-k+1) :
                 /\ CommonAt(a, b, i, p, k)
                 /\ \A q \in 1..(p-1) : ~CommonAt(a, b, i, q, k)
    IN IF k = 0 THEN [i |-> 1, j |-> 1, size |-> 0]
                ELSE [i |-> i, j |-> j, size |-> k]

\* SequenceMatcher.get_matching_blocks: total size of the matching blocks, the
\* longest block m and then the blocks to its left and to its right
RECURSIVE MatchingSize(_, _)
BlocksSize(a, b, m) ==
    IF m.size = 0 THEN 0
    ELSE m.size
         + MatchingSize(SubSeq(a, 1, m.i - 1), SubSeq(b, 1, m.j - 1))
         + MatchingSize(SubSeq(a, m.i + m.size, Len(a)),
                        SubSeq(b, m.j + m.size, Len(b)))

MatchingSize(a, b) ==
    IF Len(a) = 0 \/ Len(b) = 0 THEN 0
    ELSE BlocksSize(a, b, find_longest_match(a, b))

\* SequenceMatcher(None, text1, text2).ratio() = 2*M/T, and 1 when T = 0
_compute_fuzzy_similarity(text1, text2) ==
    IF Len(text1) + Len(text2) = 0 THEN <<1, 1>>
    ELSE <<2 * MatchingSize(text1, text2), Len(text1) + Len(text2)>>

\* Jaccard similarity that takes two empty sets for equal sets
_compute_set_overlap_EmptyAlike(set1, set2) ==
    IF set1 = {} /\ set2 = {} THEN <<1, 1>>
    ELSE <<Cardinality(set1 \cap set2), Cardinality(set1 \cup set2)>>

\* Jaccard similarity; 0 when either set is empty
_compute_set_overlap(set1, set2) ==
    IF set1 = {} \/ set2 = {} THEN <<0, 1>>
    ELSE <<Cardinality(set1 \cap set2), Cardinality(set1 \cup set2)>>

\* the combined score with the four components weighted alike
CombinedScore_EqualWeights(fp, fo, kw, nu) ==
    <<  25 * fp[1] * fo[2] * kw[2] * nu[2]
      + 25 * fo[1] * fp[2] * kw[2] * nu[2]
      + 25 * kw[1] * fp[2] * fo[2] * nu[2]
      + 25 * nu[1] * fp[2] * fo[2] * kw[2],
      100 * fp[2] * fo[2] * kw[2] * nu[2] >>

\* 0.40*fingerprint + 0.35*formulas + 0.15*keywords + 0.10*numbers
CombinedScore(fp, fo, kw, nu) ==
    <<  40 * fp[1] * fo[2] * kw[2] * nu[2]
      + 35 * fo[1] * fp[2] * kw[2] * nu[2]
      + 15 * kw[1] * fp[2] * fo[2] * nu[2]
      + 10 * nu[1] * fp[2] * fo[2] * kw[2],
      100 * fp[2] * fo[2] * kw[2] * nu[2] >>

_compute_signature_similarity(sig1, sig2) ==
    LET fp == _compute_fuzzy_similarity(sig1.fingerprint, sig2.fingerprint)
        fo == _compute_set_overlap(sig1.formulas, sig2.formulas)
        nu == _compute_set_overlap(sig1.numbers, sig2.numbers)
        kw == _compute_set_overlap(sig1.keywords, sig2.keywords)
    IN [fingerprint |-> fp, formulas |-> fo, numbers |-> nu, keywords |-> kw,
        combined |-> CombinedScore(fp, fo, kw, nu)]

\* ScoreGT with >= for >
ScoreGT_OrEqual(s, t) == s[1] * t[2] >= t[1] * s[2]

\* comparisons of two scores and of a score with a threshold in hundredths
ScoreGT(s, t) == s[1] * t[2] > t[1] * s[2]
ScoreGE(s, hundredths) == 100 * s[1] >= hundredths * s[2]

\* the combined signature score of every pair of texts, computed once
SignatureTable ==
    {<<p, _compute_signature_similarity(_create_question_signature(p[1]),
                                        _create_question_signature(p[2])).combined>> :
        p \in Texts \X Texts}

SignatureScore(text1, text2) ==
    (CHOOSE e \in SignatureTable : e[1] = <<text1, text2>>)[2]

(***************************************************************************)
(* Embedding service and cosine similarity.  A similarity is the pair      *)
(* <<d, n>> standing for d / sqrt(n); <<0, 1>> is 0.0.                     *)
(***************************************************************************)
\* the vector embed_query returns for a text
embed_query(text) ==
    CASE text = "NaCl 5 acid" -> <<1, 0>>
      [] text = "NaCl 5 acd"  -> <<3, 1>>
      [] text = "NaCl"        -> <<2, 1>>
      [] OTHER                -> <<-1, 3>>

Dot(u, v) == u[1] * v[1] + u[2] * v[2]

\* dot / (norm1 * norm2), and 0.0 when a norm is zero
_compute_cosine_similarity(embedding1, embedding2) ==
    IF Dot(embedding1, embedding1) = 0 \/ Dot(embedding2, embedding2) = 0
    THEN <<0, 1>>
    ELSE <<Dot(embedding1, embedding2),
           Dot(embedding1, embedding1) * Dot(embedding2, embedding2)>>

\* s > t
CosGT(s, t) ==
    CASE s[1] > 0 /\ t[1] > 0   -> s[1] * s[1] * t[2] > t[1] * t[1] * s[2]
      [] s[1] < 0 /\ t[1] < 0   -> s[1] * s[1] * t[2] < t[1] * t[1] * s[2]
      [] OTHER                  -> s[1] > t[1]

\* s >= hundredths / 100, for a positive threshold
CosGE(s, hundredths) ==
    s[1] > 0 /\ 10000 * s[1] * s[1] >= hundredths * hundredths * s[2]

(***************************************************************************)
(* Thresholds.                                                             *)
(***************************************************************************)
HIGH_CONFIDENCE_THRESHOLD == 85
MEDIUM_CONFIDENCE_THRESHOLD == 75
SEMANTIC_EMBEDDING_THRESHOLD == 82

(***************************************************************************)
(* The store: table cached_scientific_questions, kept as a sequence in     *)
(* ORDER BY last_used DESC (the most recently used row first).  Ids are    *)
(* SERIAL, so id order is creation order.  Table interactions is kept as a *)
(* sequence in id order.                                                   *)
(***************************************************************************)
VARIABLES
    cache,        \* rows of cached_scientific_questions, most recently used first
    nextId,       \* next value of the SERIAL id
    embeddings,   \* TRUE iff the deduplicator holds an embedding client
    last,         \* the last call made and what it returned
    interactions, \* rows of interactions, in id order
    pending,      \* the user request answered but not yet logged
    calls         \* the cache_question calls in progress, by caller

\* the state of the dashboard and of the bot's request handler
app == <<interactions, pending, calls>>

vars == <<cache, nextId, embeddings, last, interactions, pending, calls>>

Unselected == "unselected"

\* no row (Python None)
NoRow ==
    [id |-> 0, question_text |-> None, answer_text |-> None, embedding |-> <<>>,
     image_hash |-> None, times_used |-> 0, is_corrected |-> FALSE,
     correction_source |-> None]

\* NewRow with is_corrected read from the caller's metadata
NewRow_FromMetadata(id, question_text, answer_text, embedding, image_hash, metadata) ==
    [id |-> id, question_text |-> question_text, answer_text |-> answer_text,
     embedding |-> embedding, image_hash |-> image_hash, times_used |-> 1,
     is_corrected |-> (metadata = "corrected"), correction_source |-> None]

\* the row INSERTed by cache_scientific_question; times_used and is_corrected
\* take the column defaults of the schema
NewRow(id, question_text, answer_text, embedding, image_hash, metadata) ==
    [id |-> id, question_text |-> question_text, answer_text |-> answer_text,
     embedding |-> embedding, image_hash |-> image_hash, times_used |-> 1,
     is_corrected |-> FALSE, correction_source |-> None]

Indexes(c) == 1..Len(c)
Ids(c) == {c[i].id : i \in Indexes(c)}
RowOf(c, id) == c[CHOOSE i \in Indexes(c) : c[i].id = id]

\* c without the rows at the positions in drop
RECURSIVE Without(_, _)
Without(c, drop) ==
    IF c = <<>> THEN <<>>
    ELSE LET rest == Without(Tail(c), {i - 1 : i \in drop \ {1}})
         IN IF 1 \in drop THEN rest ELSE <<Head(c)>> \o rest

\* HashIndex with the order reversed: ORDER BY last_used ASC LIMIT 1
HashIndex_Oldest(c, image_hash) ==
    LET hits == {i \in Indexes(c) : c[i].image_hash = image_hash}
    IN IF hits = {} THEN 0
       ELSE CHOOSE i \in hits : \A j \in hits : i >= j

\* position of the row SELECTed by image hash: ORDER BY last_used DESC LIMIT 1
HashIndex(c, image_hash) ==
    LET hits == {i \in Indexes(c) : c[i].image_hash = image_hash}
    IN IF hits = {} THEN 0
       ELSE CHOOSE i \in hits : \A j \in hits : i <= j

\* get_cached_question_by_image_hash: the row as read, and the store after
\* times_used = times_used + 1, last_used = CURRENT_TIMESTAMP
get_cached_question_by_image_hash(c, image_hash) ==
    LET i == HashIndex(c, image_hash)
    IN IF i = 0 THEN [row |-> NoRow, store |-> c]
       ELSE [row   |-> c[i],
             store |-> <<[c[i] EXCEPT !.times_used = @ + 1]>> \o Without(c, {i})]

\* the columns get_recent_cached_questions selects
PoolRow(r) ==
    [r EXCEPT !.image_hash = Unselected, !.correction_source = Unselected]

\* get_recent_cached_questions with the approved rows selected before the
\* limit is applied: WHERE is_corrected ORDER BY last_used DESC LIMIT limit
get_recent_cached_questions_ApprovedOnly(c, limit) ==
    [i \in 1..Min(Len(Without(c, {j \in Indexes(c) : ~c[j].is_corrected})), limit) |->
        PoolRow(Without(c, {j \in Indexes(c) : ~c[j].is_corrected})[i])]

\* get_recent_cached_questions: ORDER BY last_used DESC LIMIT limit
get_recent_cached_questions(c, limit) ==
    [i \in 1..Min(Len(c), limit) |-> PoolRow(c[i])]

\* update_cached_question_answer with an UPDATE that sends the row back to
\* review: is_corrected = FALSE with the new answer
update_cached_question_answer_BackToReview(c, cached_question_id, new_answer, correction_source) ==
    [i \in Indexes(c) |->
        IF c[i].id = cached_question_id
        THEN [c[i] EXCEPT !.answer_text = new_answer, !.is_corrected = FALSE,
                          !.correction_source = correction_source]
        ELSE c[i]]

\* update_cached_question_answer with an UPDATE that also counts a use:
\* times_used = times_used + 1, last_used = CURRENT_TIMESTAMP
update_cached_question_answer_CountsUse(c, cached_question_id, new_answer, correction_source) ==
    IF cached_question_id \in Ids(c)
    THEN <<[RowOf(c, cached_question_id) EXCEPT
               !.answer_text = new_answer, !.is_corrected = TRUE,
               !.correction_source = correction_source,
               !.times_used = @ + 1]>>
         \o Without(c, {i \in Indexes(c) : c[i].id = cached_question_id})
    ELSE c

\* update_cached_question_answer with an UPDATE that leaves is_corrected alone
update_cached_question_answer_AnswerOnly(c, cached_question_id, new_answer, correction_source) ==
    [i \in Indexes(c) |->
        IF c[i].id = cached_question_id
        THEN [c[i] EXCEPT !.answer_text = new_answer,
                          !.correction_source = correction_source]
        ELSE c[i]]

\* update_cached_question_answer: the store after the UPDATE; rowcount > 0 iff
\* the id exists
update_cached_question_answer(c, cached_question_id, new_answer, correction_source) ==
    [i \in Indexes(c) |->
        IF c[i].id = cached_question_id
        THEN [c[i] EXCEPT !.answer_text = new_answer, !.is_corrected = TRUE,
                          !.correction_source = correction_source]
        ELSE c[i]]

(***************************************************************************)
(* find_similar_question.                                                  *)
(***************************************************************************)
\* layer 2 loop: the best approved pool row by combined score, from
\* best_match = None, best_score = 0.0, replaced on a strictly greater score
RECURSIVE SignatureLoop(_, _, _, _, _)
SignatureLoop(pool, i, question_text, best_match, best_score) ==
    IF i > Len(pool) THEN [match |-> best_match, score |-> best_score]
    ELSE IF ~pool[i].is_corrected
         THEN SignatureLoop(pool, i + 1, question_text, best_match, best_score)
         ELSE LET combined == SignatureScore(question_text, pool[i].question_text)
              IN IF ScoreGT(combined, best_score)
                 THEN SignatureLoop(pool, i + 1, question_text, pool[i], combined)
                 ELSE SignatureLoop(pool, i + 1, question_text, best_match, best_score)

\* layer 3 loop: the best approved pool row with an embedding by cosine
RECURSIVE SemanticLoop(_, _, _, _, _)
SemanticLoop(pool, i, question_embedding, best_match, best_score) ==
    IF i > Len(pool) THEN [match |-> best_match, score |-> best_score]
    ELSE IF ~pool[i].is_corrected \/ pool[i].embedding = <<>>
         THEN SemanticLoop(pool, i + 1, question_embedding, best_match, best_score)
         ELSE LET semantic_sim ==
                      _compute_cosine_similarity(question_embedding, pool[i].embedding)
              IN IF CosGT(semantic_sim, best_score)
                 THEN SemanticLoop(pool, i + 1, question_embedding, pool[i], semantic_sim)
                 ELSE SemanticLoop(pool, i + 1, question_embedding, best_match, best_score)

\* what a call reports: the row returned (NoRow for None), the layer that
\* returned it, the layers evaluated in order, the number of embed_query
\* calls, the dependency that failed, whether an exception reached the
\* caller, and the store after the call
Outcome(result, layer, layers, embed_calls, failed, store) ==
    [result |-> result, layer |-> layer, layers |-> layers,
     embed_calls |-> embed_calls, failed |-> failed, raised |-> FALSE,
     store |-> store]

\* SemanticLayer that returns the best row whatever its similarity
SemanticLayer_NoThreshold(c, pool, question_text, layers, fail) ==
    IF fail = "embed"
    THEN Outcome(NoRow, "none", layers \o <<"semantic">>, 1, "embed", c)
    ELSE LET best == SemanticLoop(pool, 1, embed_query(question_text), NoRow, <<0, 1>>)
         IN IF best.match # NoRow
            THEN Outcome(best.match, "semantic", layers \o <<"semantic">>, 1, "none", c)
            ELSE Outcome(NoRow, "none", layers \o <<"semantic">>, 1, "none", c)

\* layer 3, lines 374-412
SemanticLayer(c, pool, question_text, layers, fail) ==
    IF fail = "embed"
    THEN Outcome(NoRow, "none", layers \o <<"semantic">>, 1, "embed", c)
    ELSE LET best == SemanticLoop(pool, 1, embed_query(question_text), NoRow, <<0, 1>>)
         IN IF CosGE(best.score, SEMANTIC_EMBEDDING_THRESHOLD)
            THEN Outcome(best.match, "semantic", layers \o <<"semantic">>, 1, "none", c)
            ELSE Outcome(NoRow, "none", layers \o <<"semantic">>, 1, "none", c)

\* SignatureLayer that computes the embedding of the question before it scans
\* the pool
SignatureLayer_EagerEmbedding(c, question_text, layers, fail) ==
    IF fail = "pool_fetch"
    THEN Outcome(NoRow, "none", layers \o <<"signature">>, 1, "pool_fetch", c)
    ELSE LET pool == get_recent_cached_questions(c, PoolLimit)
             best == SignatureLoop(pool, 1, question_text, NoRow, <<0, 1>>)
         IN IF ScoreGE(best.score, MEDIUM_CONFIDENCE_THRESHOLD)
            THEN Outcome(best.match, "signature", layers \o <<"signature">>, 1, "none", c)
            ELSE SemanticLayer(c, pool, question_text, layers \o <<"signature">>, fail)

\* SignatureLayer with the pool fetch outside the try block
SignatureLayer_FetchOutsideTry(c, question_text, layers, fail) ==
    IF fail = "pool_fetch"
    THEN [Outcome(NoRow, "none", layers \o <<"signature">>, 0, "pool_fetch", c)
             EXCEPT !.raised = TRUE]
    ELSE LET pool == get_recent_cached_questions(c, PoolLimit)
             best == SignatureLoop(pool, 1, question_text, NoRow, <<0, 1>>)
         IN IF ScoreGE(best.score, MEDIUM_CONFIDENCE_THRESHOLD)
            THEN Outcome(best.match, "signature", layers \o <<"signature">>, 0, "none", c)
            ELSE SemanticLayer(c, pool, question_text, layers \o <<"signature">>, fail)

\* layer 2, lines 301-369, then layer 3
SignatureLayer(c, question_text, layers, fail) ==
    IF fail = "pool_fetch"
    THEN Outcome(NoRow, "none", layers \o <<"signature">>, 0, "pool_fetch", c)
    ELSE LET pool == get_recent_cached_questions(c, PoolLimit)
             best == SignatureLoop(pool, 1, question_text, NoRow, <<0, 1>>)
         IN IF ScoreGE(best.score, HIGH_CONFIDENCE_THRESHOLD)
            THEN Outcome(best.match, "signature", layers \o <<"signature">>, 0, "none", c)
            ELSE IF ScoreGE(best.score, MEDIUM_CONFIDENCE_THRESHOLD)
            THEN Outcome(best.match, "signature", layers \o <<"signature">>, 0, "none", c)
            ELSE SemanticLayer(c, pool, question_text, layers \o <<"signature">>, fail)

\* find_similar_question whose layer 1 returns the row found by image hash
\* without looking at is_corrected
find_similar_question_AnyHashHit(c, emb, question_text, image_hash, fail) ==
    IF ~emb
    THEN Outcome(NoRow, "none", <<>>, 0, "none", c)
    ELSE IF image_hash # None
         THEN IF fail = "hash_read"
              THEN Outcome(NoRow, "none", <<"image_hash">>, 0, "hash_read", c)
              ELSE LET exact == get_cached_question_by_image_hash(c, image_hash)
                   IN IF exact.row # NoRow
                      THEN Outcome(exact.row, "image_hash", <<"image_hash">>, 0,
                                   "none", exact.store)
                      ELSE SignatureLayer(exact.store, question_text,
                                          <<"image_hash">>, fail)
         ELSE SignatureLayer(c, question_text, <<>>, fail)

\* find_similar_question(question_text, image_hash); fail names the dependency
\* call that raises during this call, if it is reached
find_similar_question(c, emb, question_text, image_hash, fail) ==
    IF ~emb
    THEN Outcome(NoRow, "none", <<>>, 0, "none", c)
    ELSE IF image_hash # None
         THEN IF fail = "hash_read"
              THEN Outcome(NoRow, "none", <<"image_hash">>, 0, "hash_read", c)
              ELSE LET exact == get_cached_question_by_image_hash(c, image_hash)
                   IN IF exact.row # NoRow /\ exact.row.is_corrected
                      THEN Outcome(exact.row, "image_hash", <<"image_hash">>, 0,
                                   "none", exact.store)
                      ELSE SignatureLayer(exact.store, question_text,
                                          <<"image_hash">>, fail)
         ELSE SignatureLayer(c, question_text, <<>>, fail)

(***************************************************************************)
(* cache_question and update_cached_answer.                                *)
(***************************************************************************)
\* cache_question that INSERTs the row before it asks for the embedding
cache_question_InsertFirst(c, next_id, emb, question_text, answer_text, image_hash, metadata, fail) ==
    IF ~emb
    THEN [ok |-> FALSE, embed_calls |-> 0, failed |-> "none", store |-> c,
          next_id |-> next_id]
    ELSE IF fail = "insert"
    THEN [ok |-> FALSE, embed_calls |-> 0, failed |-> "insert", store |-> c,
          next_id |-> next_id]
    ELSE IF fail = "embed"
    THEN [ok |-> FALSE, embed_calls |-> 1, failed |-> "embed",
          store |-> <<NewRow(next_id, question_text, answer_text, <<>>,
                             image_hash, metadata)>> \o c,
          next_id |-> next_id + 1]
    ELSE [ok |-> TRUE, embed_calls |-> 1, failed |-> "none",
          store |-> <<NewRow(next_id, question_text, answer_text,
                             embed_query(question_text), image_hash, metadata)>> \o c,
          next_id |-> next_id + 1]

\* cache_question(question_text, answer_text, image_hash, metadata); fail
\* names the dependency call that raises, if it is reached.  embed_query is
\* a synchronous call and the body has no await, so a call that has started
\* runs to its return without interleaving.
cache_question(c, next_id, emb, question_text, answer_text, image_hash, metadata, fail) ==
    IF ~emb
    THEN [ok |-> FALSE, embed_calls |-> 0, failed |-> "none", store |-> c,
          next_id |-> next_id]
    ELSE IF fail = "embed"
    THEN [ok |-> FALSE, embed_calls |-> 1, failed |-> "embed", store |-> c,
          next_id |-> next_id]
    ELSE IF fail = "insert"
    THEN [ok |-> FALSE, embed_calls |-> 1, failed |-> "insert", store |-> c,
          next_id |-> next_id]
    ELSE [ok |-> TRUE, embed_calls |-> 1, failed |-> "none",
          store |-> <<NewRow(next_id, question_text, answer_text,
                             embed_query(question_text), image_hash, metadata)>> \o c,
          next_id |-> next_id + 1]

\* update_cached_answer(cached_question_id, new_answer, correction_source)
update_cached_answer(c, cached_question_id, new_answer, correction_source) ==
    [ok |-> cached_question_id \in Ids(c),
     store |-> update_cached_question_answer(c, cached_question_id,
                                             new_answer, correction_source)]

\* delete_old_cache_entries(days, min_usage): the rows after position keep are
\* the rows with last_used before the cutoff
delete_old_cache_entries(c, keep, min_usage) ==
    Without(c, {i \in Indexes(c) : i > keep /\ c[i].times_used < min_usage})

(***************************************************************************)
(* The state machine.                                                      *)
(***************************************************************************)
\* the record of a call, with the fields a call does not set
Call(op) ==
    [op |-> op, text |-> None, hash |-> None, id |-> 0, answer |-> None,
     metadata |-> None, ok |-> FALSE, result |-> NoRow, layer |-> "none",
     layers |-> <<>>, embed_calls |-> 0, failed |-> "none", raised |-> FALSE]

\* no user request in progress (Python None)
NoRequest ==
    [text |-> None, hash |-> None, cached_id |-> 0, response |-> None,
     generated |-> FALSE]

\* no cache_question call in progress
NoCalls == <<>>

Init ==
    /\ cache = <<>>
    /\ nextId = 1
    /\ embeddings \in BOOLEAN
    /\ last = Call("init")
    /\ interactions = <<>>
    /\ pending = NoRequest
    /\ calls = NoCalls

\* EnhancedQuestionDeduplicator.__init__ in a (re)started process: the
\* embedding client is built, or self.embeddings = None
Restart ==
    /\ embeddings' \in BOOLEAN
    /\ last' = Call("init")
    /\ UNCHANGED <<cache, nextId, app>>

CacheQuestion ==
    \E question_text \in CachedTexts, answer_text \in CachedAnswers,
       image_hash \in Hashes \cup {None}, metadata \in Metadata,
       fail \in {"none", "embed", "insert"} :
        \E o \in {cache_question(cache, nextId, embeddings, question_text,
                                answer_text, image_hash, metadata, fail)} :
           /\ fail = "none" \/ o.failed = fail
           /\ o.next_id <= MaxId + 1
           /\ cache' = o.store
           /\ nextId' = o.next_id
           /\ last' = [Call("cache") EXCEPT
                          !.ok = o.ok, !.embed_calls = o.embed_calls,
                          !.failed = o.failed,
                          !.id = IF o.ok THEN nextId ELSE 0,
                          !.metadata = IF o.ok THEN metadata ELSE None]
           /\ UNCHANGED <<embeddings, app>>

UpdateCachedAnswer ==
    \E cached_question_id \in 1..MaxId, new_answer \in Answers,
       correction_source \in CorrectionSources :
        \E o \in {update_cached_answer(cache, cached_question_id, new_answer,
                                      correction_source)} :
           /\ cache' = o.store
           /\ last' = [Call("update") EXCEPT
                          !.ok = o.ok, !.id = cached_question_id,
                          !.answer = new_answer]
           /\ UNCHANGED <<nextId, embeddings, app>>

FindSimilarQuestion ==
    \E question_text \in Texts, image_hash \in Hashes \cup {None},
       fail \in {"none", "hash_read", "pool_fetch", "embed"} :
        \E o \in {find_similar_question(cache, embeddings, question_text,
                                       image_hash, fail)} :
           /\ fail = "none" \/ o.failed = fail
           /\ \A i \in Indexes(o.store) : o.store[i].times_used <= MaxUses
           /\ cache' = o.store
           /\ last' = [Call("find") EXCEPT
                          !.text = question_text, !.hash = image_hash,
                          !.result = o.result, !.layer = o.layer,
                          !.layers = o.layers, !.embed_calls = o.embed_calls,
                          !.failed = o.failed, !.raised = o.raised]
           /\ UNCHANGED <<nextId, embeddings, app>>

DeleteOldCacheEntries ==
    \E keep \in 0..Len(cache), min_usage \in MinUsages :
        /\ cache' = delete_old_cache_entries(cache, keep, min_usage)
        /\ last' = [Call("sweep") EXCEPT !.ok = TRUE]
        /\ UNCHANGED <<nextId, embeddings, app>>

Next ==
    \/ Restart
    \/ CacheQuestion
    \/ UpdateCachedAnswer
    \/ FindSimilarQuestion
    \/ DeleteOldCacheEntries

Spec == Init /\ [][Next]_vars

(***************************************************************************)
(* The lookup on its own: find_similar_question applied to every store of  *)
(* at most MaxRows rows that cache_question and update_cached_answer can   *)
(* have left.                                                              *)
(***************************************************************************)
\* the row cache_question inserted, after update_cached_answer if approved
StoredRow(id, question_text, image_hash, approved) ==
    LET row == NewRow(id, question_text, "generated", embed_query(question_text),
                      image_hash, None)
    IN IF approved
       THEN [row EXCEPT !.answer_text = "corrected", !.is_corrected = TRUE,
                        !.correction_source = "manual_correction"]
       ELSE row

RowKinds == CachedTexts \X (Hashes \cup {None}) \X BOOLEAN

InitPool ==
    /\ \E n \in 0..MaxRows : \E kinds \in [1..n -> RowKinds] :
         \E newest_first \in BOOLEAN :
            cache = [i \in 1..n |->
                        StoredRow(IF newest_first THEN n + 1 - i ELSE i,
                                  kinds[i][1], kinds[i][2], kinds[i][3])]
    /\ nextId = MaxRows + 1
    /\ embeddings = TRUE
    /\ last = Call("init")
    /\ interactions = <<>>
    /\ pending = NoRequest
    /\ calls = NoCalls

NextPool == FindSimilarQuestion

SpecPool == InitPool /\ [][NextPool]_vars

(***************************************************************************)
(* The dashboard (src/admin_dashboard.py) and the bot's request handler    *)
(* (src/handlers.py, src/scientific_core.py) over tables interactions and  *)
(* cached_scientific_questions.  A cache link of 0 is NULL.                *)
(***************************************************************************)
\* the text an administrator types as a correction
CorrectedTexts == {"corrected"}

\* log_scientific_interaction that leaves the cache link of the row NULL
log_scientific_interaction_Unlinked(ints, user_input, bot_response, image_hash, cached_question_id) ==
    Append(ints, [id |-> Len(ints) + 1, user_input |-> user_input,
                  bot_response |-> bot_response, image_hash |-> image_hash,
                  cached_question_id |-> 0,
                  is_corrected |-> FALSE, corrected_text |-> None])

\* the row INSERTed by log_scientific_interaction; is_corrected and
\* corrected_text take the column defaults.  image_hash is the SHA-256 of the
\* file at image_path.
log_scientific_interaction(ints, user_input, bot_response, image_hash, cached_question_id) ==
    Append(ints, [id |-> Len(ints) + 1, user_input |-> user_input,
                  bot_response |-> bot_response, image_hash |-> image_hash,
                  cached_question_id |-> cached_question_id,
                  is_corrected |-> FALSE, corrected_text |-> None])

\* update_interaction_correction: is_corrected = TRUE, corrected_text = %s
update_interaction_correction(ints, interaction_id, corrected_text) ==
    [i \in 1..Len(ints) |->
        IF i = interaction_id
        THEN [ints[i] EXCEPT !.is_corrected = TRUE, !.corrected_text = corrected_text]
        ELSE ints[i]]

\* UPDATE interactions SET cached_question_id = %s WHERE id = %s
LinkInteraction(ints, interaction_id, cached_id) ==
    [i \in 1..Len(ints) |->
        IF i = interaction_id
        THEN [ints[i] EXCEPT !.cached_question_id = cached_id]
        ELSE ints[i]]

\* NewestCreated with the order reversed: ORDER BY created_at ASC LIMIT 1
NewestCreated_Oldest(c, image_hash, user_input) ==
    LET hits == {c[i].id : i \in {j \in Indexes(c) :
                     IF image_hash # None
                     THEN c[j].image_hash = image_hash
                     ELSE c[j].question_text = user_input}}
    IN IF hits = {} THEN 0
       ELSE CHOOSE id \in hits : \A other \in hits : other >= id

\* SELECT id ... WHERE image_hash = %s (or question_text = %s when the
\* interaction has no image) ORDER BY created_at DESC LIMIT 1; 0 for no row
NewestCreated(c, image_hash, user_input) ==
    LET hits == {c[i].id : i \in {j \in Indexes(c) :
                     IF image_hash # None
                     THEN c[j].image_hash = image_hash
                     ELSE c[j].question_text = user_input}}
    IN IF hits = {} THEN 0
       ELSE CHOOSE id \in hits : \A other \in hits : other <= id

\* UPDATE cached_scientific_questions SET is_corrected = TRUE,
\* correction_source = ... WHERE id = %s
MarkCorrected(c, id, correction_source) ==
    [i \in Indexes(c) |->
        IF c[i].id = id
        THEN [c[i] EXCEPT !.is_corrected = TRUE,
                          !.correction_source = correction_source]
        ELSE c[i]]

\* what a dashboard route answers and leaves behind: the 'success' of its
\* JSON, the cached_id it reports, whether its cache write (cache_question or
\* update_cached_question_answer) succeeded, and the two tables
Response(success, cached_id, cache_ok, failed, store, next_id, ints) ==
    [success |-> success, cached_id |-> cached_id, cache_ok |-> cache_ok,
     failed |-> failed, store |-> store, next_id |-> next_id,
     interactions |-> ints]

\* POST /api/conversation/correct; fail names the dependency call of
\* cache_question that raises, if it is reached
correct_response(c, next_id, emb, ints, interaction_id, corrected_text, fail) ==
    IF interaction_id \notin 1..Len(ints)
    THEN Response(FALSE, 0, FALSE, "none", c, next_id, ints)
    ELSE LET row == ints[interaction_id]
         IN IF row.cached_question_id # 0
            THEN Response(TRUE, row.cached_question_id,
                          row.cached_question_id \in Ids(c), "none",
                          update_cached_question_answer(c, row.cached_question_id,
                              corrected_text, "manual_correction"),
                          next_id,
                          update_interaction_correction(ints, interaction_id,
                                                        corrected_text))
            ELSE LET r == cache_question(c, next_id, emb, row.user_input,
                                         corrected_text, row.image_hash,
                                         "corrected", fail)
                     new_cached_id ==
                         IF r.ok
                         THEN NewestCreated(r.store, row.image_hash, row.user_input)
                         ELSE 0
                 IN Response(TRUE, new_cached_id, r.ok, r.failed,
                             IF new_cached_id # 0
                             THEN MarkCorrected(r.store, new_cached_id,
                                                "manual_correction")
                             ELSE r.store,
                             r.next_id,
                             update_interaction_correction(
                                 IF new_cached_id # 0
                                 THEN LinkInteraction(ints, interaction_id,
                                                      new_cached_id)
                                 ELSE ints,
                                 interaction_id, corrected_text))

\* POST /api/conversation/approve
approve_response(c, next_id, emb, ints, interaction_id, fail) ==
    IF interaction_id \notin 1..Len(ints)
    THEN Response(FALSE, 0, FALSE, "none", c, next_id, ints)
    ELSE LET row == ints[interaction_id]
         IN IF row.cached_question_id = 0
            THEN LET r == cache_question(c, next_id, emb, row.user_input,
                                         row.bot_response, row.image_hash,
                                         "approved", fail)
                     new_cached_id ==
                         IF r.ok
                         THEN NewestCreated(r.store, row.image_hash, row.user_input)
                         ELSE 0
                 IN Response(TRUE, new_cached_id, r.ok, r.failed,
                             IF new_cached_id # 0
                             THEN MarkCorrected(r.store, new_cached_id,
                                                "admin_approval")
                             ELSE r.store,
                             r.next_id,
                             IF new_cached_id # 0
                             THEN update_interaction_correction(
                                      LinkInteraction(ints, interaction_id,
                                                      new_cached_id),
                                      interaction_id, row.bot_response)
                             ELSE ints)
            ELSE Response(TRUE, row.cached_question_id,
                          row.cached_question_id \in Ids(c), "none",
                          update_cached_question_answer(c, row.cached_question_id,
                              row.bot_response, "admin_approval"),
                          next_id,
                          update_interaction_correction(ints, interaction_id,
                                                        row.bot_response))

\* SELECT id FROM interactions WHERE cached_question_id = %s
AffectedIds(ints, cached_id) ==
    {i \in 1..Len(ints) : ints[i].cached_question_id = cached_id}

\* UnlinkInteractions that nulls the cache link and leaves the correction
\* flag and the correction text of the interaction
UnlinkInteractions_LinkOnly(ints, cached_id) ==
    [i \in 1..Len(ints) |->
        IF ints[i].cached_question_id = cached_id
        THEN [ints[i] EXCEPT !.cached_question_id = 0]
        ELSE ints[i]]

\* UPDATE interactions SET cached_question_id = NULL, is_corrected = FALSE,
\* corrected_text = NULL WHERE cached_question_id = %s
UnlinkInteractions(ints, cached_id) ==
    [i \in 1..Len(ints) |->
        IF ints[i].cached_question_id = cached_id
        THEN [ints[i] EXCEPT !.cached_question_id = 0, !.is_corrected = FALSE,
                             !.corrected_text = None]
        ELSE ints[i]]

\* delete_cached_question with a commit after each statement: the UPDATE of
\* interactions stays when the DELETE raises, finds no row, or the process
\* crashes after it
delete_cached_question_CommitEach(c, next_id, ints, cached_id, fail) ==
    IF fail = "unlink"
    THEN Response(FALSE, cached_id, FALSE, fail, c, next_id, ints)
    ELSE IF fail # "none" \/ cached_id \notin Ids(c)
    THEN Response(FALSE, cached_id, FALSE, fail, c, next_id,
                  UnlinkInteractions(ints, cached_id))
    ELSE Response(TRUE, cached_id, TRUE, "none",
                  Without(c, {i \in Indexes(c) : c[i].id = cached_id}), next_id,
                  UnlinkInteractions(ints, cached_id))

\* DELETE /api/cache/delete/<cached_id>: one transaction, committed iff the
\* DELETE returned the row; fail names the statement that raises (or the
\* crash before the commit), after which the transaction is rolled back
delete_cached_question(c, next_id, ints, cached_id, fail) ==
    IF fail # "none"
    THEN Response(FALSE, cached_id, FALSE, fail, c, next_id, ints)
    ELSE IF cached_id \in Ids(c)
    THEN Response(TRUE, cached_id, TRUE, "none",
                  Without(c, {i \in Indexes(c) : c[i].id = cached_id}), next_id,
                  UnlinkInteractions(ints, cached_id))
    ELSE Response(FALSE, cached_id, FALSE, "none", c, next_id, ints)

\* POST /api/cache/clear-old: the DELETE of delete_old_cache_entries; table
\* interactions is not touched
clear_old_cache(c, keep, min_usage) ==
    Without(c, {i \in Indexes(c) : i > keep /\ c[i].times_used < min_usage})

\* database.bulk_apply_correction: corrected_text and is_corrected = TRUE on
\* the rows WHERE id = ANY(interaction_ids)
bulk_apply_correction(ints, interaction_ids, corrected_text) ==
    [i \in 1..Len(ints) |->
        IF i \in interaction_ids
        THEN [ints[i] EXCEPT !.is_corrected = TRUE, !.corrected_text = corrected_text]
        ELSE ints[i]]

\* SELECT DISTINCT cached_question_id, user_input, image_path FROM
\* interactions WHERE id = ANY(interaction_ids)
DistinctRows(ints, interaction_ids) ==
    {<<ints[i].cached_question_id, ints[i].user_input, ints[i].image_hash>> :
        i \in interaction_ids \cap (1..Len(ints))}

\* the sequences the rows of a SELECT without ORDER BY can come in
Orders(rows) ==
    {order \in [1..Cardinality(rows) -> rows] :
        \A i, j \in 1..Cardinality(rows) : i # j => order[i] # order[j]}

\* the loop of bulk_apply_correction over the rows selected, from row i on: a
\* linked row updates its cache entry, an unlinked row calls cache_question
RECURSIVE BulkCache(_, _, _, _, _, _, _)
BulkCache(c, next_id, emb, rows, i, corrected_text, fail) ==
    IF i \notin DOMAIN rows THEN [store |-> c, next_id |-> next_id]
    ELSE IF rows[i][1] # 0
         THEN BulkCache(update_cached_question_answer(c, rows[i][1], corrected_text,
                                                      "bulk_correction"),
                        next_id, emb, rows, i + 1, corrected_text, fail)
         ELSE LET r == cache_question(c, next_id, emb, rows[i][2], corrected_text,
                                      rows[i][3], "bulk_corrected", fail)
              IN BulkCache(r.store, r.next_id, emb, rows, i + 1, corrected_text,
                           fail)

\* POST /api/cache/force-update: the entry find_similar_question returns for
\* the text gets the new answer
force_update_cache(c, next_id, emb, ints, question_text, new_answer) ==
    CHOOSE response \in
        {IF similar_cached # NoRow
         THEN Response(TRUE, similar_cached.id, TRUE, "none",
                       update_cached_question_answer(c, similar_cached.id,
                           new_answer, "manual_force_update"),
                       next_id, ints)
         ELSE Response(FALSE, 0, FALSE, "none", c, next_id, ints) :
            similar_cached \in
                {find_similar_question(c, emb, question_text, None, "none").result}} :
        TRUE

\* the record of a dashboard request
Request(op) ==
    [op |-> op, interaction_id |-> 0, cached_id |-> 0, corrected_text |-> None,
     success |-> FALSE, cache_ok |-> FALSE, failed |-> "none",
     affected_interactions |-> {}, interaction_ids |-> {}]

\* ScientificCore.get_scientific_response_async, cache check: the approved
\* answer and the id of the row found, or a generated answer and None
GetScientificResponse ==
    /\ pending = NoRequest
    /\ Len(interactions) < MaxInteractions
    /\ \E question_text \in CachedTexts, image_hash \in Hashes \cup {None} :
        \E o \in {find_similar_question(cache, embeddings, question_text,
                                       image_hash, "none")} :
           /\ \A i \in Indexes(o.store) : o.store[i].times_used <= MaxUses
           /\ cache' = o.store
           /\ pending' = [text |-> question_text, hash |-> image_hash,
                          cached_id |-> o.result.id,
                          response |-> IF o.result # NoRow
                                       THEN o.result.answer_text
                                       ELSE "generated",
                          generated |-> o.result = NoRow]
           /\ last' = [Call("find") EXCEPT
                          !.text = question_text, !.hash = image_hash,
                          !.result = o.result, !.layer = o.layer,
                          !.layers = o.layers, !.embed_calls = o.embed_calls,
                          !.failed = o.failed, !.raised = o.raised]
    /\ UNCHANGED <<nextId, embeddings, interactions, calls>>

\* the handler logs the interaction with the cache id it was given
LogScientificInteraction ==
    /\ pending # NoRequest
    /\ interactions' = log_scientific_interaction(interactions, pending.text,
                           pending.response, pending.hash, pending.cached_id)
    /\ pending' = NoRequest
    /\ last' = [Request("log") EXCEPT !.interaction_id = Len(interactions) + 1,
                                      !.cached_id = pending.cached_id,
                                      !.success = TRUE]
    /\ UNCHANGED <<cache, nextId, embeddings, calls>>

CorrectResponse ==
    \E interaction_id \in 1..MaxInteractions, corrected_text \in CorrectedTexts,
       fail \in {"none", "embed", "insert"} :
        \E o \in {correct_response(cache, nextId, embeddings, interactions,
                                  interaction_id, corrected_text, fail)} :
           /\ fail = "none" \/ o.failed = fail
           /\ o.next_id <= MaxId + 1
           /\ cache' = o.store
           /\ nextId' = o.next_id
           /\ interactions' = o.interactions
           /\ last' = [Request("correct") EXCEPT
                          !.interaction_id = interaction_id,
                          !.cached_id = o.cached_id,
                          !.corrected_text = corrected_text,
                          !.success = o.success, !.cache_ok = o.cache_ok,
                          !.failed = o.failed]
           /\ UNCHANGED <<embeddings, pending, calls>>

ApproveResponse ==
    \E interaction_id \in 1..MaxInteractions,
       fail \in {"none", "embed", "insert"} :
        \E o \in {approve_response(cache, nextId, embeddings, interactions,
                                  interaction_id, fail)} :
           /\ fail = "none" \/ o.failed = fail
           /\ o.next_id <= MaxId + 1
           /\ cache' = o.store
           /\ nextId' = o.next_id
           /\ interactions' = o.interactions
           /\ last' = [Request("approve") EXCEPT
                          !.interaction_id = interaction_id,
                          !.cached_id = o.cached_id,
                          !.success = o.success, !.cache_ok = o.cache_ok,
                          !.failed = o.failed]
           /\ UNCHANGED <<embeddings, pending, calls>>

DeleteCachedQuestion ==
    \E cached_id \in 1..MaxId, fail \in {"none", "unlink", "delete", "crash"} :
        \E o \in {delete_cached_question(cache, nextId, interactions, cached_id,
                                        fail)} :
           /\ cache' = o.store
           /\ interactions' = o.interactions
           /\ last' = [Request("delete") EXCEPT
                          !.cached_id = cached_id, !.success = o.success,
                          !.cache_ok = o.cache_ok, !.failed = o.failed,
                          !.affected_interactions =
                              IF o.success
                              THEN AffectedIds(interactions, cached_id)
                              ELSE {}]
           /\ UNCHANGED <<nextId, embeddings, pending, calls>>

ClearOldCache ==
    \E keep \in 0..Len(cache), min_usage \in MinUsages :
        /\ cache' = clear_old_cache(cache, keep, min_usage)
        /\ last' = [Request("sweep") EXCEPT !.success = TRUE]
        /\ UNCHANGED <<nextId, embeddings, interactions, pending, calls>>

\* POST /api/corrections/bulk-apply
BulkApplyCorrection ==
    \E interaction_ids \in (SUBSET (1..MaxInteractions)) \ {{}},
       corrected_text \in CorrectedTexts, fail \in {"none", "embed"} :
        \E order \in Orders(DistinctRows(interactions, interaction_ids)) :
            \E o \in {BulkCache(cache, nextId, embeddings, order, 1,
                               corrected_text, fail)} :
               /\ o.next_id <= MaxId + 1
               /\ cache' = o.store
               /\ nextId' = o.next_id
               /\ interactions' = bulk_apply_correction(interactions,
                                      interaction_ids, corrected_text)
               /\ last' = [Request("bulk") EXCEPT
                              !.interaction_ids = interaction_ids,
                              !.corrected_text = corrected_text,
                              !.success = TRUE, !.failed = fail]
               /\ UNCHANGED <<embeddings, pending, calls>>

ForceUpdateCache ==
    \E question_text \in CachedTexts, new_answer \in CorrectedTexts :
        \E o \in {force_update_cache(cache, nextId, embeddings, interactions,
                                    question_text, new_answer)} :
           /\ cache' = o.store
           /\ last' = [Request("force") EXCEPT
                          !.cached_id = o.cached_id,
                          !.corrected_text = new_answer,
                          !.success = o.success, !.cache_ok = o.cache_ok]
           /\ UNCHANGED <<nextId, embeddings, interactions, pending, calls>>

NextAdmin ==
    \/ Restart
    \/ GetScientificResponse
    \/ LogScientificInteraction
    \/ CorrectResponse
    \/ ApproveResponse
    \/ DeleteCachedQuestion
    \/ ClearOldCache
    \/ BulkApplyCorrection
    \/ ForceUpdateCache

SpecAdmin == Init /\ [][NextAdmin]_vars

(***************************************************************************)
(* Two cache_question calls in flight at once, from the bot and from the   *)
(* dashboard process.  Each call is two steps: the embedding request, then *)
(* the INSERT transaction of database.cache_scientific_question.           *)
(***************************************************************************)
Callers == {1, 2}

\* a caller that has not called cache_question yet
IdleCall ==
    [pc |-> "idle", question_text |-> None, answer_text |-> None,
     image_hash |-> None, embedding |-> <<>>, started_at |-> 0, ok |-> FALSE,
     id |-> 0, failed |-> "none"]

\* cache_scientific_question that updates the row with the same question text
\* and image hash when there is one, instead of inserting a second row
cache_scientific_question_Upsert(c, next_id, question_text, answer_text, embedding, image_hash, metadata, fail) ==
    IF fail = "insert"
    THEN [id |-> 0, store |-> c, next_id |-> next_id]
    ELSE IF \E i \in Indexes(c) : /\ c[i].question_text = question_text
                                   /\ c[i].image_hash = image_hash
    THEN [id |-> NewestCreated(c, image_hash, question_text),
          store |-> [i \in Indexes(c) |->
                        IF /\ c[i].question_text = question_text
                           /\ c[i].image_hash = image_hash
                        THEN [c[i] EXCEPT !.answer_text = answer_text]
                        ELSE c[i]],
          next_id |-> next_id]
    ELSE [id |-> next_id,
          store |-> <<NewRow(next_id, question_text, answer_text, embedding,
                             image_hash, metadata)>> \o c,
          next_id |-> next_id + 1]

\* database.cache_scientific_question: INSERT ... RETURNING id and commit; None
\* (0) after an exception and rollback.  The table has no unique constraint
\* on question_text or image_hash.
cache_scientific_question(c, next_id, question_text, answer_text, embedding, image_hash, metadata, fail) ==
    IF fail = "insert"
    THEN [id |-> 0, store |-> c, next_id |-> next_id]
    ELSE [id |-> next_id,
          store |-> <<NewRow(next_id, question_text, answer_text, embedding,
                             image_hash, metadata)>> \o c,
          next_id |-> next_id + 1]

InitRace ==
    /\ cache = <<>>
    /\ nextId = 1
    /\ embeddings \in BOOLEAN
    /\ last = Call("init")
    /\ interactions = <<>>
    /\ pending = NoRequest
    /\ calls = [p \in Callers |-> IdleCall]

\* cache_question up to the return of embed_query: False at once without an
\* embedding client or when embed_query raises
BeginCacheQuestion(p) ==
    /\ calls[p].pc = "idle"
    /\ \E question_text \in CachedTexts, answer_text \in Answers,
          image_hash \in Hashes \cup {None}, fail \in {"none", "embed"} :
          calls' = [calls EXCEPT ![p] =
              [IdleCall EXCEPT
                  !.pc = IF embeddings /\ fail = "none" THEN "embedded" ELSE "done",
                  !.question_text = question_text,
                  !.answer_text = answer_text,
                  !.image_hash = image_hash,
                  !.embedding = IF embeddings /\ fail = "none"
                                THEN embed_query(question_text) ELSE <<>>,
                  !.started_at = nextId,
                  !.failed = IF embeddings THEN fail ELSE "none"]]
    /\ UNCHANGED <<cache, nextId, embeddings, last, interactions, pending>>

\* cache_question from the call of database.cache_scientific_question to its
\* return: True iff an id came back
InsertCachedQuestion(p) ==
    /\ calls[p].pc = "embedded"
    /\ \E fail \in {"none", "insert"} :
        \E o \in {cache_scientific_question(cache, nextId, calls[p].question_text,
                       calls[p].answer_text, calls[p].embedding,
                       calls[p].image_hash, None, fail)} :
           /\ cache' = o.store
           /\ nextId' = o.next_id
           /\ calls' = [calls EXCEPT ![p].pc = "done", ![p].ok = (o.id # 0),
                                     ![p].id = o.id, ![p].failed = fail]
    /\ UNCHANGED <<embeddings, last, interactions, pending>>

NextRace == \E p \in Callers : BeginCacheQuestion(p) \/ InsertCachedQuestion(p)

SpecRace == InitRace /\ [][NextRace]_vars

(***************************************************************************)
(* update_cached_answer on its own, applied to the stores and interaction  *)
(* tables the dashboard and the bot can have left: rows used one or more   *)
(* times, interactions that were corrected and linked to a row.            *)
(***************************************************************************)
\* an interaction as logged, and as left by a correction that linked it
LoggedInteraction(id, cached_question_id) ==
    [id |-> id, user_input |-> "NaCl 5 acid", bot_response |-> "generated",
     image_hash |-> None, cached_question_id |-> cached_question_id,
     is_corrected |-> cached_question_id # 0,
     corrected_text |-> IF cached_question_id # 0 THEN "corrected" ELSE None]

InitUpdate ==
    /\ \E n \in 0..MaxId : \E kinds \in [1..n -> RowKinds] :
         \E uses \in [1..n -> 1..MaxUses] :
            cache = [i \in 1..n |->
                        [StoredRow(n + 1 - i, kinds[i][1], kinds[i][2], kinds[i][3])
                            EXCEPT !.times_used = uses[i]]]
    /\ nextId = MaxId + 1
    /\ embeddings = TRUE
    /\ last = Call("init")
    /\ \E m \in 0..MaxInteractions : \E links \in [1..m -> 0..MaxId] :
         interactions = [j \in 1..m |-> LoggedInteraction(j, links[j])]
    /\ pending = NoRequest
    /\ calls = NoCalls

NextUpdate == UpdateCachedAnswer

SpecUpdate == InitUpdate /\ [][NextUpdate]_vars

(***************************************************************************)
(* POST /api/conversation/correct_both, applied to the stores and          *)
(* interaction tables the dashboard and the bot can have left.             *)
(***************************************************************************)
\* the route up to the FAQ file: the interaction is corrected first; a linked
\* interaction updates its entry; an unlinked one calls cache_question and
\* then updates and links the entry find_similar_question returns, if any.
\* An exception in the caching part is logged and the route goes on.
correct_response_and_add_to_faq(c, next_id, emb, ints, interaction_id, corrected_text, fail) ==
    IF interaction_id \notin 1..Len(ints)
    THEN Response(TRUE, 0, FALSE, "none", c, next_id, ints)
    ELSE IF ints[interaction_id].cached_question_id # 0
    THEN Response(TRUE, ints[interaction_id].cached_question_id,
                  ints[interaction_id].cached_question_id \in Ids(c), "none",
                  update_cached_question_answer(c,
                      ints[interaction_id].cached_question_id, corrected_text,
                      "manual_with_faq"),
                  next_id,
                  update_interaction_correction(ints, interaction_id,
                                                corrected_text))
    ELSE CHOOSE response \in
        {IF ~r.ok
         THEN Response(TRUE, 0, FALSE, r.failed, r.store, r.next_id,
                       update_interaction_correction(ints, interaction_id,
                                                     corrected_text))
         ELSE CHOOSE linked \in
             {IF similar.result = NoRow
              THEN Response(TRUE, 0, TRUE, "none", similar.store, r.next_id,
                            update_interaction_correction(ints, interaction_id,
                                                          corrected_text))
              ELSE Response(TRUE, similar.result.id, TRUE, "none",
                            update_cached_question_answer(similar.store,
                                similar.result.id, corrected_text,
                                "manual_with_faq"),
                            r.next_id,
                            LinkInteraction(
                                update_interaction_correction(ints,
                                    interaction_id, corrected_text),
                                interaction_id, similar.result.id)) :
                 similar \in {find_similar_question(r.store, emb,
                                  ints[interaction_id].user_input,
                                  ints[interaction_id].image_hash, "none")}} :
             TRUE :
            r \in {cache_question(c, next_id, emb, ints[interaction_id].user_input,
                                  corrected_text, ints[interaction_id].image_hash,
                                  "corrected_with_faq", fail)}} :
        TRUE

\* an interaction on the question and the image of a user, not linked or
\* linked by a correction
AskedInteraction(id, user_input, image_hash, cached_question_id) ==
    [LoggedInteraction(id, cached_question_id) EXCEPT
        !.user_input = user_input, !.image_hash = image_hash]

AskedKinds == CachedTexts \X (Hashes \cup {None})

InitFaq ==
    /\ \E n \in 0..(MaxId - 1) : \E kinds \in [1..n -> RowKinds] :
         /\ cache = [i \in 1..n |->
                        StoredRow(n + 1 - i, kinds[i][1], kinds[i][2], kinds[i][3])]
         /\ nextId = n + 1
         /\ \E m \in 1..MaxInteractions :
              \E asked \in [1..m -> AskedKinds], links \in [1..m -> 0..n] :
                 interactions = [j \in 1..m |->
                     AskedInteraction(j, asked[j][1], asked[j][2], links[j])]
    /\ embeddings = TRUE
    /\ last = Call("init")
    /\ pending = NoRequest
    /\ calls = NoCalls

\* the corrected_text of the request: the text of an earlier correction or a
\* new one
FaqTexts == CorrectedTexts \cup {"corrected for faq"}

CorrectResponseAndAddToFaq ==
    \E interaction_id \in 1..MaxInteractions, corrected_text \in FaqTexts,
       fail \in {"none", "embed", "insert"} :
        \E o \in {correct_response_and_add_to_faq(cache, nextId, embeddings,
                      interactions, interaction_id, corrected_text, fail)} :
           /\ fail = "none" \/ o.failed = fail
           /\ o.next_id <= MaxId + 1
           /\ \A i \in Indexes(o.store) : o.store[i].times_used <= MaxUses
           /\ cache' = o.store
           /\ nextId' = o.next_id
           /\ interactions' = o.interactions
           /\ last' = [Request("correct_both") EXCEPT
                          !.interaction_id = interaction_id,
                          !.cached_id = o.cached_id,
                          !.corrected_text = corrected_text,
                          !.success = o.success, !.cache_ok = o.cache_ok,
                          !.failed = o.failed]
           /\ UNCHANGED <<embeddings, pending, calls>>

NextFaq == CorrectResponseAndAddToFaq

SpecFaq == InitFaq /\ [][NextFaq]_vars

(***************************************************************************)
(* Two POST /api/conversation/correct requests in flight at once (the      *)
(* dashboard serves each request on its own thread).  A request is the     *)
(* statements of correct_response, each committed on its own: the SELECT   *)
(* of the interaction, the cache write, the SELECT of the newest entry,    *)
(* the UPDATE that marks it, the UPDATE that links the interaction, and    *)
(* update_interaction_correction.                                          *)
(***************************************************************************)
Admins == {1, 2}

\* a request that has not started
IdleCorrection ==
    [pc |-> "idle", interaction_id |-> 0, corrected_text |-> None,
     user_input |-> None, image_hash |-> None, cached_id |-> 0,
     new_cached_id |-> 0, failed |-> "none"]

\* two interactions logged without a cache link
InitCorrectRace ==
    /\ cache = <<>>
    /\ nextId = 1
    /\ embeddings = TRUE
    /\ last = Call("init")
    /\ \E asked \in [1..2 -> AskedKinds] :
          interactions = [j \in 1..2 |->
                             AskedInteraction(j, asked[j][1], asked[j][2], 0)]
    /\ pending = NoRequest
    /\ calls = [a \in Admins |-> IdleCorrection]

\* SELECT user_input, cached_question_id, image_path FROM interactions, and
\* the SHA-256 of the image
ReadInteraction(a) ==
    /\ calls[a].pc = "idle"
    /\ \E interaction_id \in 1..Len(interactions), corrected_text \in FaqTexts :
          calls' = [calls EXCEPT ![a] =
              [IdleCorrection EXCEPT
                  !.pc = "read",
                  !.interaction_id = interaction_id,
                  !.corrected_text = corrected_text,
                  !.user_input = interactions[interaction_id].user_input,
                  !.image_hash = interactions[interaction_id].image_hash,
                  !.cached_id = interactions[interaction_id].cached_question_id]]
    /\ UNCHANGED <<cache, nextId, embeddings, last, interactions, pending>>

\* if cached_id: update_cached_question_answer; else: cache_question, and on
\* success the lookup of the entry follows
WriteCorrectionToCache(a) ==
    /\ calls[a].pc = "read"
    /\ IF calls[a].cached_id # 0
       THEN /\ cache' = update_cached_question_answer(cache, calls[a].cached_id,
                            calls[a].corrected_text, "manual_correction")
            /\ nextId' = nextId
            /\ calls' = [calls EXCEPT ![a].pc = "cached"]
       ELSE \E fail \in {"none", "embed", "insert"} :
              \E r \in {cache_question(cache, nextId, embeddings,
                            calls[a].user_input, calls[a].corrected_text,
                            calls[a].image_hash, "corrected", fail)} :
                 /\ r.next_id <= MaxId + 1
                 /\ cache' = r.store
                 /\ nextId' = r.next_id
                 /\ calls' = [calls EXCEPT
                                 ![a].pc = IF r.ok THEN "inserted" ELSE "cached",
                                 ![a].failed = r.failed]
    /\ UNCHANGED <<embeddings, last, interactions, pending>>

\* SELECT id FROM cached_scientific_questions WHERE image_hash = %s (or
\* question_text = %s) ORDER BY created_at DESC LIMIT 1
FindCreatedEntry(a) ==
    /\ calls[a].pc = "inserted"
    /\ \E id \in {NewestCreated(cache, calls[a].image_hash, calls[a].user_input)} :
          calls' = [calls EXCEPT ![a].pc = IF id # 0 THEN "found" ELSE "cached",
                                 ![a].new_cached_id = id]
    /\ UNCHANGED <<cache, nextId, embeddings, last, interactions, pending>>

\* UPDATE cached_scientific_questions SET is_corrected = TRUE ... and commit
MarkCreatedEntry(a) ==
    /\ calls[a].pc = "found"
    /\ cache' = MarkCorrected(cache, calls[a].new_cached_id, "manual_correction")
    /\ calls' = [calls EXCEPT ![a].pc = "marked"]
    /\ UNCHANGED <<nextId, embeddings, last, interactions, pending>>

\* UPDATE interactions SET cached_question_id = %s and commit
LinkCreatedEntry(a) ==
    /\ calls[a].pc = "marked"
    /\ interactions' = LinkInteraction(interactions, calls[a].interaction_id,
                                       calls[a].new_cached_id)
    /\ calls' = [calls EXCEPT ![a].pc = "cached",
                              ![a].cached_id = calls[a].new_cached_id]
    /\ UNCHANGED <<cache, nextId, embeddings, last, pending>>

\* database.update_interaction_correction and the JSON answer
FinishCorrection(a) ==
    /\ calls[a].pc = "cached"
    /\ interactions' = update_interaction_correction(interactions,
                           calls[a].interaction_id, calls[a].corrected_text)
    /\ calls' = [calls EXCEPT ![a].pc = "done"]
    /\ UNCHANGED <<cache, nextId, embeddings, last, pending>>

NextCorrectRace ==
    \E a \in Admins :
        \/ ReadInteraction(a)
        \/ WriteCorrectionToCache(a)
        \/ FindCreatedEntry(a)
        \/ MarkCreatedEntry(a)
        \/ LinkCreatedEntry(a)
        \/ FinishCorrection(a)

SpecCorrectRace == InitCorrectRace /\ [][NextCorrectRace]_vars

(***************************************************************************)
(* _extract_question_fingerprint on texts as sequences of characters.  The *)
(* texts are over Alphabet; they hold no upper-case letter, no 'q', and    *)
(* none of ( [ . so the substitutions that need one of these match nowhere.*)
(***************************************************************************)
Alphabet == {"a", "x", " ", ",", "-", "5"}
\* length of the texts fingerprinted
MaxLen == 5

\* \s, \d, [a-d], [:\)\.-] and [\w\s\+\-\=\(\)\[\]] on the characters that occur
IsSpace(ch) == ch = " "
IsDigit(ch) == ch = "5"
IsChoiceLetter(ch) == ch = "a"
IsNumberSuffix(ch) == ch \in {":", ")", ".", "-"}
IsKept(ch) == ch \in {"a", "x", "5", " ", "+", "-", "=", "(", ")", "[", "]"}

\* the first position from i on whose character is no space / no digit
RECURSIVE SkipSpaces(_, _)
SkipSpaces(t, i) ==
    IF i <= Len(t) /\ IsSpace(t[i]) THEN SkipSpaces(t, i + 1) ELSE i

RECURSIVE SkipDigits(_, _)
SkipDigits(t, i) ==
    IF i <= Len(t) /\ IsDigit(t[i]) THEN SkipDigits(t, i + 1) ELSE i

\* end of the match of \d+[:\)\.-]?\s* whose digits end before k
NumberEnd(t, k) ==
    SkipSpaces(t, IF k <= Len(t) /\ IsNumberSuffix(t[k]) THEN k + 1 ELSE k)

\* re.sub(r'(?:question|q)?\s*\d+[:\)\.-]?\s*', ' ', text) from position i on
RECURSIVE RemoveQuestionNumbers(_, _)
RemoveQuestionNumbersAt(t, i, j) ==
    IF j <= Len(t) /\ IsDigit(t[j])
    THEN <<" ">> \o RemoveQuestionNumbers(t, NumberEnd(t, SkipDigits(t, j)))
    ELSE <<t[i]>> \o RemoveQuestionNumbers(t, i + 1)

RemoveQuestionNumbers(t, i) ==
    IF i > Len(t) THEN <<>> ELSE RemoveQuestionNumbersAt(t, i, SkipSpaces(t, i))

\* _normalize_answer_choices: re.sub(r'([a-d])-\s*', r'\1) ', text) from
\* position i on; the other three substitutions need ( [ or .
RECURSIVE _normalize_answer_choices(_, _)
_normalize_answer_choices(t, i) ==
    IF i > Len(t) THEN <<>>
    ELSE IF IsChoiceLetter(t[i]) /\ i + 1 <= Len(t) /\ t[i + 1] = "-"
    THEN <<t[i], ")", " ">> \o _normalize_answer_choices(t, SkipSpaces(t, i + 2))
    ELSE <<t[i]>> \o _normalize_answer_choices(t, i + 1)

\* ' '.join(text.split()) from position i on; started says whether a word has
\* been written
RECURSIVE JoinSplit(_, _, _)
JoinSplit(t, i, started) ==
    IF i > Len(t) THEN <<>>
    ELSE IF IsSpace(t[i]) THEN JoinSplit(t, i + 1, started)
    ELSE (IF started /\ IsSpace(t[i - 1]) THEN <<" ", t[i]>> ELSE <<t[i]>>)
         \o JoinSplit(t, i + 1, TRUE)

\* the filler words, in the order of the loop
Fillers ==
    << <<" ", "t", "h", "e", " ">>, <<" ", "a", " ">>, <<" ", "a", "n", " ">>,
       <<" ", "i", "s", " ">>, <<" ", "a", "r", "e", " ">>, <<" ", "o", "f", " ">>,
       <<" ", "i", "n", " ">>, <<" ", "a", "t", " ">>, <<" ", "t", "o", " ">>,
       <<" ", "f", "r", "o", "m", " ">>, <<" ", "w", "i", "t", "h", " ">> >>

\* filler occurs in t at position i
OccursAt(t, i, filler) ==
    /\ i + Len(filler) - 1 <= Len(t)
    /\ \A k \in 1..Len(filler) : t[i + k - 1] = filler[k]

\* text.replace(filler, ' ') from position i on: the occurrences from left to
\* right that do not overlap
RECURSIVE Replace(_, _, _)
Replace(t, i, filler) ==
    IF i > Len(t) THEN <<>>
    ELSE IF OccursAt(t, i, filler)
    THEN <<" ">> \o Replace(t, i + Len(filler), filler)
    ELSE <<t[i]>> \o Replace(t, i + 1, filler)

\* the loop over the filler words, from filler n on
RECURSIVE RemoveFillers(_, _)
RemoveFillers(t, n) ==
    IF n > Len(Fillers) THEN t
    ELSE RemoveFillers(Replace(t, 1, Fillers[n]), n + 1)

\* re.sub(r'[^\w\s\+\-\=\(\)\[\]]', '', text)
RemovePunctuation(t) == SelectSeq(t, IsKept)

\* _extract_question_fingerprint(text), text a sequence of characters.
\* text.lower() leaves the characters of the model as they are, and
\* r'([A-Z][a-z]?)\s+(\d+)' matches nothing in a lower-cased text.
QuestionFingerprint(t) ==
    JoinSplit(RemovePunctuation(RemoveFillers(JoinSplit(
        _normalize_answer_choices(RemoveQuestionNumbers(t, 1), 1), 1, FALSE),
        1)), 1, FALSE)

\* the texts of at most MaxLen characters
TextsOfLength(n) == [1..n -> Alphabet]

InitFingerprint ==
    /\ cache = <<>>
    /\ nextId = 1
    /\ embeddings = TRUE
    /\ \E n \in 0..MaxLen : \E t \in TextsOfLength(n) :
          last = [op |-> "text", text |-> t, once |-> <<>>, twice |-> <<>>]
    /\ interactions = <<>>
    /\ pending = NoRequest
    /\ calls = NoCalls

\* the fingerprint of a text, and the fingerprint of that fingerprint
ExtractQuestionFingerprint ==
    /\ last.op = "text"
    /\ \E once \in {QuestionFingerprint(last.text)} :
          last' = [op |-> "fingerprint", text |-> last.text, once |-> once,
                   twice |-> QuestionFingerprint(once)]
    /\ UNCHANGED <<cache, nextId, embeddings, app>>

NextFingerprint == ExtractQuestionFingerprint

SpecFingerprint == InitFingerprint /\ [][NextFingerprint]_vars

(***************************************************************************)
(* The combined score of _compute_signature_similarity on component scores.*)
(* A score is a fraction <<numerator, denominator>> in lowest terms.       *)
(***************************************************************************)
\* largest denominator of a component score
MaxDen == 3

\* the values between 0 and 1 that SequenceMatcher.ratio() and
\* _compute_set_overlap return, up to the denominator MaxDen
ComponentScores ==
    {s \in (0..MaxDen) \X (1..MaxDen) :
        /\ s[1] <= s[2]
        /\ \A g \in 2..MaxDen : ~(s[1] % g = 0 /\ s[2] % g = 0)}

ScoreNames == {"fingerprint", "formulas", "keywords", "numbers"}

\* scores['combined'] of the component scores
WithCombined(scores) ==
    [fingerprint |-> scores.fingerprint, formulas |-> scores.formulas,
     keywords |-> scores.keywords, numbers |-> scores.numbers,
     combined |-> CombinedScore(scores.fingerprint, scores.formulas,
                                scores.keywords, scores.numbers)]

\* two signature pairs whose component scores differ in at most one component
InitScore ==
    /\ cache = <<>>
    /\ nextId = 1
    /\ embeddings = TRUE
    /\ \E scores \in [ScoreNames -> ComponentScores] :
       \E k \in ScoreNames : \E w \in ComponentScores :
          last = [op |-> "scores", scores |-> scores,
                  other |-> [scores EXCEPT ![k] = w]]
    /\ interactions = <<>>
    /\ pending = NoRequest
    /\ calls = NoCalls

\* _compute_signature_similarity on each of the two pairs
ComputeSignatureSimilarity ==
    /\ last.op = "scores"
    /\ last' = [op |-> "combined", scores |-> WithCombined(last.scores),
                other |-> WithCombined(last.other)]
    /\ UNCHANGED <<cache, nextId, embeddings, app>>

NextScore == ComputeSignatureSimilarity

SpecScore == InitScore /\ [][NextScore]_vars

(***************************************************************************)
(* _compute_set_overlap on the sets of a signature.                        *)
(***************************************************************************)
\* the formulas, numbers and keywords two signatures are made of
Items == {"nacl", "h2o", "5", "acid"}

InitOverlap ==
    /\ cache = <<>>
    /\ nextId = 1
    /\ embeddings = TRUE
    /\ \E set1 \in SUBSET Items : \E set2 \in SUBSET Items :
          last = [op |-> "sets", set1 |-> set1, set2 |-> set2,
                  overlap |-> <<0, 1>>, reverse |-> <<0, 1>>]
    /\ interactions = <<>>
    /\ pending = NoRequest
    /\ calls = NoCalls

\* _compute_set_overlap(set1, set2) and _compute_set_overlap(set2, set1)
ComputeSetOverlap ==
    /\ last.op = "sets"
    /\ last' = [last EXCEPT !.op = "overlap",
                            !.overlap = _compute_set_overlap(last.set1, last.set2),
                            !.reverse = _compute_set_overlap(last.set2, last.set1)]
    /\ UNCHANGED <<cache, nextId, embeddings, app>>

NextOverlap == ComputeSetOverlap

SpecOverlap == InitOverlap /\ [][NextOverlap]_vars

(***************************************************************************)
(* Properties.                                                             *)
(***************************************************************************)
\* the recency pool of the store: a lookup that reached layer 2 fetched
\* exactly this pool, since nothing after the fetch writes to the store
Pool == get_recent_cached_questions(cache, PoolLimit)
ApprovedInPool == {i \in 1..Len(Pool) : Pool[i].is_corrected}
SigOf(i) == SignatureScore(last.text, Pool[i].question_text)
\* some approved pool row scores at least hundredths / 100
SigReaches(hundredths) == \E i \in ApprovedInPool : ScoreGE(SigOf(i), hundredths)
Approved(c) == {i \in Indexes(c) : c[i].is_corrected}
IndexOfId(c, id) == CHOOSE i \in Indexes(c) : c[i].id = id

\* C1: whatever row find_similar_question returns, by any layer, was read
\* with is_corrected = TRUE and is an approved row of the store; a row with
\* is_corrected = FALSE is never returned.
C1_CacheVisibility ==
    (last.op = "find" /\ last.result # NoRow) =>
        /\ last.result.is_corrected
        /\ last.result.id \in Ids(cache)
        /\ RowOf(cache, last.result.id).is_corrected

\* a row was returned although an unapproved row with the text that was asked
\* about is more recent in the store
C1_Witness ==
    /\ last.op = "find"
    /\ last.result # NoRow
    /\ \E i \in Indexes(cache) :
          /\ ~cache[i].is_corrected
          /\ cache[i].question_text = last.text
          /\ i < IndexOfId(cache, last.result.id)

\* C2: a lookup made while no row is approved returns none; and once
\* update_cached_answer has succeeded on the row cache_question created for
\* question D (the most recently used row: nothing was inserted or served
\* since), the next lookup for the same D (its text and its image hash), made
\* by a deduplicator that has its embedding client and in which no store read
\* or embedding call fails, returns that row.
C2_Shadowing ==
    [][ (last'.op = "find") =>
           /\ (Approved(cache) = {}) => (last'.result = NoRow)
           /\ ( /\ last.op = "update" /\ last.ok
                /\ cache # <<>>
                /\ Head(cache).id = last.id
                /\ last'.text = Head(cache).question_text
                /\ last'.hash = Head(cache).image_hash
                /\ embeddings
                /\ last'.failed = "none" )
              => (last'.result.id = last.id) ]_vars

\* the approved row of D is returned to a lookup for D that needed the
\* semantic layer
C2_Witness ==
    /\ last.op = "find"
    /\ cache # <<>>
    /\ last.result.id = Head(cache).id
    /\ last.text = Head(cache).question_text
    /\ last.hash = Head(cache).image_hash
    /\ last.layer = "semantic"

\* C3: once update_cached_answer has succeeded on the row cache_question
\* created with image hash h (the most recently used row), a lookup with hash
\* h and any text, made by a deduplicator that has its embedding client and
\* whose layer 1 store read answers, returns that row with the approved
\* answer, at layer 1 and with no embed_query call.
C3_ExactImageDuplicate ==
    [][ ( /\ last'.op = "find"
          /\ last.op = "update" /\ last.ok
          /\ cache # <<>>
          /\ Head(cache).id = last.id
          /\ Head(cache).image_hash # None
          /\ last'.hash = Head(cache).image_hash
          /\ embeddings
          /\ last'.failed = "none" )
        => /\ last'.result.id = last.id
           /\ last'.result.answer_text = last.answer
           /\ last'.layer = "image_hash"
           /\ last'.layers = <<"image_hash">>
           /\ last'.embed_calls = 0 ]_vars

\* a lookup with a different text but the same image hash got the approved
\* row and its corrected answer from layer 1
C3_Witness ==
    /\ last.op = "find"
    /\ last.layer = "image_hash"
    /\ last.hash # None
    /\ last.result.image_hash = last.hash
    /\ last.result.question_text # last.text
    /\ last.result.answer_text = "corrected"
    /\ last.embed_calls = 0

\* C4: the layers of one lookup run in the order image hash, signature,
\* semantic; embed_query is called at most once, and only in a lookup that
\* layer 1 did not answer and in which no approved pool row reaches a
\* combined score of 0.75.
C4_LayerOrdering ==
    (last.op = "find") =>
        /\ last.layers \in {<<>>, <<"image_hash">>, <<"signature">>,
                            <<"image_hash", "signature">>,
                            <<"signature", "semantic">>,
                            <<"image_hash", "signature", "semantic">>}
        /\ (last.hash = None) => (last.layers = <<>> \/ Head(last.layers) # "image_hash")
        /\ last.embed_calls \in {0, 1}
        /\ (last.embed_calls = 1) =>
              /\ last.layer # "image_hash"
              /\ last.layers # <<>>
              /\ last.layers[Len(last.layers)] = "semantic"
              /\ ~SigReaches(MEDIUM_CONFIDENCE_THRESHOLD)

\* a lookup went through all three layers and called embed_query once while
\* an approved row was in the pool
C4_Witness ==
    /\ last.op = "find"
    /\ last.layers = <<"image_hash", "signature", "semantic">>
    /\ last.embed_calls = 1
    /\ ApprovedInPool # {}

\* the layer was evaluated by the last call
Evaluated(layer) == \E k \in 1..Len(last.layers) : last.layers[k] = layer
\* no approved pool row scores more than row i
SigMaxAt(i) ==
    \A j \in ApprovedInPool : SigOf(j)[1] * SigOf(i)[2] <= SigOf(i)[1] * SigOf(j)[2]
FirstSigMax ==
    CHOOSE i \in ApprovedInPool :
        SigMaxAt(i) /\ \A j \in ApprovedInPool : SigMaxAt(j) => i <= j

\* C5: a lookup that fetched the pool returns at the signature layer iff some
\* approved pool row has a combined score >= 0.75, in the band >= 0.85 and in
\* the band [0.75, 0.85) alike, and the row it returns is then the first
\* approved pool row, in pool order, whose score is the maximum.
C5_SignatureDecision ==
    (last.op = "find" /\ Evaluated("signature") /\ last.failed # "pool_fetch") =>
        /\ last.layer # "image_hash"
        /\ (last.layer = "signature") <=> SigReaches(MEDIUM_CONFIDENCE_THRESHOLD)
        /\ (last.layer = "signature") => (last.result = Pool[FirstSigMax])

\* a signature hit in the band [0.75, 0.85) where two approved pool rows tie
\* for the maximum and the first was returned
C5_Witness ==
    /\ last.op = "find"
    /\ last.layer = "signature"
    /\ ~SigReaches(HIGH_CONFIDENCE_THRESHOLD)
    /\ \E i, j \in ApprovedInPool :
          i < j /\ SigMaxAt(i) /\ SigMaxAt(j) /\ last.result = Pool[i]

WithEmbedding == {i \in ApprovedInPool : Pool[i].embedding # <<>>}
CosOf(i) == _compute_cosine_similarity(embed_query(last.text), Pool[i].embedding)
CosMaxAt(i) == \A j \in WithEmbedding : ~CosGT(CosOf(j), CosOf(i))
FirstCosMax ==
    CHOOSE i \in WithEmbedding :
        CosMaxAt(i) /\ \A j \in WithEmbedding : CosMaxAt(j) => i <= j

Unavailable == last.op = "find" /\ ~embeddings
EmbeddingFailed == last.op = "find" /\ last.failed = "embed"

\* C7: a lookup made while the deduplicator has no embedding client, or whose
\* embed_query call fails, still returns the approved row that carries the
\* image hash asked about and still returns a row when an approved pool row
\* has a combined score >= 0.75.
C7_EmbeddingUnavailability ==
    (Unavailable \/ EmbeddingFailed) =>
        /\ ( /\ last.hash # None
             /\ HashIndex(cache, last.hash) # 0
             /\ cache[HashIndex(cache, last.hash)].is_corrected )
           => (last.result.id = cache[HashIndex(cache, last.hash)].id)
        /\ SigReaches(MEDIUM_CONFIDENCE_THRESHOLD) => (last.result # NoRow)

\* C8: a lookup in which the layer 1 store read, the pool fetch or the
\* embed_query call fails raises nothing to its caller and returns None.
C8_NoFailurePropagates ==
    (last.op = "find") =>
        /\ ~last.raised
        /\ (last.failed # "none") => (last.result = NoRow /\ last.layer = "none")

\* the pool fetch failed in a lookup whose question an approved row of the
\* pool matches exactly, and the lookup returned None without raising
C8_Witness ==
    /\ last.op = "find"
    /\ last.failed = "pool_fetch"
    /\ \E i \in ApprovedInPool : Pool[i].question_text = last.text
    /\ last.result = NoRow
    /\ ~last.raised

\* C9: the row a successful cache_question creates has is_corrected = FALSE
\* and times_used = 1 whatever the metadata passed, and a row becomes approved
\* only in a successful update_cached_answer on its id.
C9_InsertionApprovalAgnostic ==
    [][ /\ (last'.op = "cache" /\ last'.ok) =>
              /\ cache' # <<>>
              /\ Head(cache').id = last'.id
              /\ last'.id \notin Ids(cache)
              /\ ~Head(cache').is_corrected
              /\ Head(cache').times_used = 1
        /\ \A i \in Indexes(cache') :
              ( /\ cache'[i].is_corrected
                /\ \/ cache'[i].id \notin Ids(cache)
                   \/ ~RowOf(cache, cache'[i].id).is_corrected )
              => (last'.op = "update" /\ last'.ok /\ last'.id = cache'[i].id) ]_vars

\* cache_question was given metadata that says corrected and the row it
\* created is unapproved
C9_Witness ==
    /\ last.op = "cache"
    /\ last.ok
    /\ last.metadata = "corrected"
    /\ cache # <<>>
    /\ Head(cache).id = last.id
    /\ ~Head(cache).is_corrected
    /\ Head(cache).times_used = 1

\* C10: cache_question returns True only after embed_query has returned, and
\* then the store gains exactly the new row with its embedding; when the
\* deduplicator has no embedding client or embed_query raises, it returns
\* False and the store is unchanged, as after every call that returns False.
C10_NoPartialCacheRow ==
    [][ (last'.op = "cache") =>
           /\ last'.ok =>
                 /\ embeddings
                 /\ last'.embed_calls = 1
                 /\ last'.failed = "none"
                 /\ Len(cache') = Len(cache) + 1
                 /\ Tail(cache') = cache
                 /\ Head(cache').embedding # <<>>
           /\ ~last'.ok => (cache' = cache /\ nextId' = nextId)
           /\ (~embeddings \/ last'.failed = "embed") => ~last'.ok
           /\ \A i \in Indexes(cache') : cache'[i].embedding # <<>> ]_vars

\* embed_query raised in a cache_question call made on a store that has rows
C10_Witness ==
    /\ last.op = "cache"
    /\ last.failed = "embed"
    /\ ~last.ok
    /\ last.embed_calls = 1
    /\ cache # <<>>

(***************************************************************************)
(* Properties of the dashboard and of the serve path.                      *)
(***************************************************************************)
\* the last request was a correction or an approval of an existing
\* interaction that had no cache link, and its cache_question returned False
CacheWriteFailed ==
    /\ last.op \in {"correct", "approve"}
    /\ last.interaction_id \in 1..Len(interactions)
    /\ last.cached_id = 0
    /\ ~last.cache_ok

\* C11: when cache_question returns False during an approve or correct
\* request on an interaction with no cache link, the request reports failure
\* and the interaction stays unapproved: is_corrected FALSE and no cache link.
C11_CacheWriteFailureSurfaced ==
    CacheWriteFailed =>
        /\ ~last.success
        /\ ~interactions[last.interaction_id].is_corrected
        /\ interactions[last.interaction_id].cached_question_id = 0

\* the last request was a correction or an approval of an interaction whose
\* cache link names no row of the store: update_cached_question_answer
\* matched no row
LinkedEntryVanished ==
    /\ last.op \in {"correct", "approve"}
    /\ last.interaction_id \in 1..Len(interactions)
    /\ last.cached_id # 0
    /\ ~last.cache_ok

\* C12: a correction or approval of an interaction whose linked cache entry
\* no longer exists is reported as not found / failed, not as success.
C12_VanishedEntryReported ==
    LinkedEntryVanished => ~last.success

\* C13: once a row has is_corrected = TRUE, no request (re-correction,
\* approval, bulk correction, force update, serve, insert of other rows,
\* delete or sweep of other rows) sets it back to FALSE: a row that is
\* approved before a step and still in the store after it is approved after it.
C13_ApprovedIsAbsorbing ==
    [][ \A i \in Indexes(cache) : \A j \in Indexes(cache') :
            (cache[i].is_corrected /\ cache'[j].id = cache[i].id)
                => cache'[j].is_corrected ]_vars

\* an approved row has just been given a new answer by a re-correction, a
\* re-approval or a force update, next to another row
C13_Witness ==
    /\ last.op \in {"correct", "approve", "force"}
    /\ last.success
    /\ last.cache_ok
    /\ Len(cache) = 2
    /\ \E i \in Indexes(cache) :
          /\ cache[i].id = last.cached_id
          /\ cache[i].id < nextId - 1
          /\ cache[i].is_corrected
          /\ cache[i].correction_source \in {"manual_correction", "admin_approval",
                                             "manual_force_update"}

\* C14: after a successful delete of cache entry E, E is not in the store,
\* every interaction that referenced E has a null cache link, is_corrected =
\* FALSE and a cleared corrected_text, and every other interaction is
\* unchanged.
C14_DeletionCascade ==
    [][ (last'.op = "delete" /\ last'.success) =>
           /\ last'.cached_id \in Ids(cache)
           /\ last'.cached_id \notin Ids(cache')
           /\ Len(interactions') = Len(interactions)
           /\ \A i \in 1..Len(interactions) :
                 IF interactions[i].cached_question_id = last'.cached_id
                 THEN /\ interactions'[i].cached_question_id = 0
                      /\ ~interactions'[i].is_corrected
                      /\ interactions'[i].corrected_text = None
                 ELSE interactions'[i] = interactions[i] ]_vars

\* a delete succeeded that unlinked one interaction and left alone another,
\* which is still corrected and linked to an entry of the store
C14_Witness ==
    /\ last.op = "delete"
    /\ last.success
    /\ Len(interactions) = 2
    /\ \E i \in last.affected_interactions :
          /\ interactions[i].cached_question_id = 0
          /\ ~interactions[i].is_corrected
    /\ \E i \in 1..Len(interactions) :
          /\ i \notin last.affected_interactions
          /\ interactions[i].is_corrected
          /\ interactions[i].cached_question_id \in Ids(cache)

C16_DeleteAllOrNothing ==
    [][ (last'.op = "delete") =>
           /\ ~last'.success => (cache' = cache /\ interactions' = interactions)
           /\ (last'.cached_id \notin Ids(cache) \/ last'.failed # "none")
                 => ~last'.success
           /\ last'.success =>
                 /\ last'.cached_id \notin Ids(cache')
                 /\ \A i \in 1..Len(interactions') :
                       interactions'[i].cached_question_id # last'.cached_id ]_vars

\* a delete of an entry that is in the store and linked from an interaction
\* failed before its commit: entry and link are still there
C16_Witness ==
    /\ last.op = "delete"
    /\ ~last.success
    /\ last.failed \in {"delete", "crash"}
    /\ last.cached_id \in Ids(cache)
    /\ \E i \in 1..Len(interactions) :
          /\ interactions[i].cached_question_id = last.cached_id
          /\ interactions[i].is_corrected

\* C17: when a delete of entry E succeeds between a request's
\* find_similar_question, which returned E, and the logging of its
\* interaction, the interaction that is logged next is not linked to E.
C17_DeleteRacingServe ==
    [][ (last.op = "delete" /\ last.success /\ last'.op = "log") =>
           interactions'[Len(interactions')].cached_question_id # last.cached_id
      ]_vars

\* both callers asked to cache the same question text with the same image
\* hash, both calls have returned, and no dependency failed in either
SameQuestionCached ==
    /\ embeddings
    /\ \A p \in Callers : calls[p].pc = "done" /\ calls[p].failed = "none"
    /\ \A p, q \in Callers : /\ calls[p].question_text = calls[q].question_text
                             /\ calls[p].image_hash = calls[q].image_hash

\* C18: two concurrent cache_question calls for the same question text and
\* image hash both return True and leave two distinct rows, both with
\* is_corrected = FALSE, each with the answer of its own call; and a call
\* that has its embedding can always do its INSERT, whatever the other call
\* is doing.
C18_RacingDuplicateInserts ==
    /\ \A p \in Callers : calls[p].pc = "embedded" => ENABLED InsertCachedQuestion(p)
    /\ SameQuestionCached =>
          /\ Len(cache) = Cardinality(Callers)
          /\ \A p, q \in Callers : p # q => calls[p].id # calls[q].id
          /\ \A p \in Callers :
                /\ calls[p].ok
                /\ calls[p].id \in Ids(cache)
                /\ RowOf(cache, calls[p].id).question_text = calls[p].question_text
                /\ RowOf(cache, calls[p].id).image_hash = calls[p].image_hash
                /\ RowOf(cache, calls[p].id).answer_text = calls[p].answer_text
                /\ ~RowOf(cache, calls[p].id).is_corrected

\* both calls were given the same question and different answers, and each
\* got its embedding before the other did its INSERT
C18_Witness ==
    /\ SameQuestionCached
    /\ calls[1].started_at = calls[2].started_at
    /\ calls[1].answer_text # calls[2].answer_text
    /\ calls[1].image_hash # None

\* C19: after an approve or correct request on an interaction that had no
\* cache link, made with the embedding client available and no dependency
\* failing, the interaction is linked to a row of the store that is
\* approved, carries the correction source of the request, and whose answer
\* is the bot response (approve) or the corrected text (correct).
C19_ApproveCorrectTransition ==
    [][ ( /\ last'.op \in {"correct", "approve"}
          /\ last'.interaction_id \in 1..Len(interactions)
          /\ interactions[last'.interaction_id].cached_question_id = 0
          /\ embeddings
          /\ last'.failed = "none" ) =>
           /\ last'.success
           /\ last'.cache_ok
           /\ interactions'[last'.interaction_id].cached_question_id = last'.cached_id
           /\ interactions'[last'.interaction_id].is_corrected
           /\ last'.cached_id \in Ids(cache')
           /\ RowOf(cache', last'.cached_id).is_corrected
           /\ RowOf(cache', last'.cached_id).question_text =
                  interactions[last'.interaction_id].user_input
           /\ RowOf(cache', last'.cached_id).correction_source =
                  (IF last'.op = "correct" THEN "manual_correction"
                                           ELSE "admin_approval")
           /\ RowOf(cache', last'.cached_id).answer_text =
                  (IF last'.op = "correct"
                   THEN last'.corrected_text
                   ELSE interactions[last'.interaction_id].bot_response) ]_vars

\* a correction has just created and linked the newer of two rows with the
\* same question text; the older row has another answer
C19_Witness ==
    /\ last.op = "correct"
    /\ last.success
    /\ last.cache_ok
    /\ last.cached_id = nextId - 1
    /\ Len(cache) = 2
    /\ interactions[last.interaction_id].cached_question_id = last.cached_id
    /\ \E i \in Indexes(cache) :
          /\ cache[i].id < last.cached_id
          /\ cache[i].question_text = RowOf(cache, last.cached_id).question_text
          /\ cache[i].image_hash = RowOf(cache, last.cached_id).image_hash
          /\ cache[i].answer_text # RowOf(cache, last.cached_id).answer_text

\* C20: every find_similar_question call that returns a row, through any of
\* the three layers, increments the times_used of that row by exactly one
\* and refreshes its last_used, which makes it the most recently used row.
C20_UsageCounting ==
    [][ (last'.op = "find" /\ last'.result # NoRow) =>
           /\ last'.result.id \in Ids(cache)
           /\ last'.result.id \in Ids(cache')
           /\ RowOf(cache', last'.result.id).times_used =
                  RowOf(cache, last'.result.id).times_used + 1
           /\ Head(cache').id = last'.result.id ]_vars

\* C21: update_cached_answer on an approved row changes only the answer
\* text and the correction source of that row, which stays approved; its
\* times_used and its place in the last_used order, every other row, and
\* every interaction (the corrected_text of those linked to the row
\* included) are unchanged.
C21_RecorrectionFrame ==
    [][ ( /\ last'.op = "update"
          /\ last'.id \in Ids(cache)
          /\ RowOf(cache, last'.id).is_corrected ) =>
           /\ last'.ok
           /\ Len(cache') = Len(cache)
           /\ \A i \in Indexes(cache) :
                 IF cache[i].id = last'.id
                 THEN /\ cache'[i].answer_text = last'.answer
                      /\ cache'[i].correction_source \in CorrectionSources
                      /\ cache'[i].is_corrected
                      /\ cache'[i] = [cache[i] EXCEPT
                             !.answer_text = cache'[i].answer_text,
                             !.correction_source = cache'[i].correction_source]
                 ELSE cache'[i] = cache[i]
           /\ interactions' = interactions ]_vars

\* an approved row used twice, behind a more recently used row, has been
\* given a new answer; the interaction linked to it keeps the older text
C21_Witness ==
    /\ last.op = "update"
    /\ last.ok
    /\ Len(cache) = 2
    /\ cache[2].id = last.id
    /\ cache[2].times_used = 2
    /\ cache[2].answer_text = "generated"
    /\ \E j \in 1..Len(interactions) :
          /\ interactions[j].cached_question_id = last.id
          /\ interactions[j].corrected_text = "corrected"

\* C22: after a bulk correction with text T on the selected interactions,
\* every selected interaction has is_corrected = TRUE and corrected_text = T,
\* and there is a cache row for its question with answer T: the row it was
\* linked to, now approved with source bulk_correction, or else a row
\* created by the request.
C22_BulkCorrection ==
    [][ (last'.op = "bulk") =>
           \A i \in last'.interaction_ids \cap (1..Len(interactions)) :
              /\ interactions'[i].is_corrected
              /\ interactions'[i].corrected_text = last'.corrected_text
              /\ IF interactions[i].cached_question_id # 0
                 THEN /\ interactions[i].cached_question_id \in Ids(cache')
                      /\ RowOf(cache', interactions[i].cached_question_id).answer_text
                             = last'.corrected_text
                      /\ RowOf(cache', interactions[i].cached_question_id).is_corrected
                      /\ RowOf(cache', interactions[i].cached_question_id).correction_source
                             = "bulk_correction"
                 ELSE \E k \in Indexes(cache') :
                         /\ cache'[k].id \notin Ids(cache)
                         /\ cache'[k].question_text = interactions[i].user_input
                         /\ cache'[k].image_hash = interactions[i].image_hash
                         /\ cache'[k].answer_text = last'.corrected_text ]_vars

\* C23: after a bulk correction with text T has updated the cache row an
\* interaction is linked to, every interaction linked to that row, selected
\* or not, has corrected_text = T.
C23_BulkRewritesSnapshots ==
    [][ (last'.op = "bulk") =>
           \A i \in last'.interaction_ids \cap (1..Len(interactions)) :
              interactions[i].cached_question_id \in Ids(cache) =>
                 \A j \in 1..Len(interactions) :
                    interactions[j].cached_question_id
                        = interactions[i].cached_question_id
                    => interactions'[j].corrected_text = last'.corrected_text
      ]_vars

\* what C24 compares of the store: the rows with their answers and flags
Entries(c) ==
    {[id |-> c[i].id, answer_text |-> c[i].answer_text,
      is_corrected |-> c[i].is_corrected] : i \in Indexes(c)}

\* C24: the same approve, correct, bulk-correct or delete request (same
\* interaction ids or cache id, same text), issued a second time with no
\* dependency failing in either, leaves the cache rows, their answers and
\* approval flags, and every interaction as they were after the first: in
\* particular it creates no further cache row.
C24_IdempotentRequests ==
    [][ ( /\ last.op \in {"approve", "correct", "bulk", "delete"}
          /\ last'.op = last.op
          /\ last'.interaction_id = last.interaction_id
          /\ last'.interaction_ids = last.interaction_ids
          /\ last'.corrected_text = last.corrected_text
          /\ (last.op = "delete" => last'.cached_id = last.cached_id)
          /\ last.failed = "none"
          /\ last'.failed = "none" ) =>
           /\ Entries(cache') = Entries(cache)
           /\ interactions' = interactions ]_vars

C26_FingerprintIdempotence ==
    (last.op = "fingerprint") => last.twice = last.once

\* comparisons of fractions with positive denominators
ScoreLE(s, t) == s[1] * t[2] <= t[1] * s[2]
ScoreEq(s, t) == s[1] * t[2] = t[1] * s[2]
IsOne(s) == s[1] = s[2]

\* 0.40*fingerprint + 0.35*formulas + 0.15*keywords + 0.10*numbers in
\* hundredths, over the common denominator of the four components
CommonDen(r) == r.fingerprint[2] * r.formulas[2] * r.keywords[2] * r.numbers[2]
Over(s, den) == s[1] * (den \div s[2])
WeightedSum(r) ==
    << 40 * Over(r.fingerprint, CommonDen(r)) + 35 * Over(r.formulas, CommonDen(r))
       + 15 * Over(r.keywords, CommonDen(r)) + 10 * Over(r.numbers, CommonDen(r)),
       100 * CommonDen(r) >>

ComponentsLE(r, q) ==
    /\ ScoreLE(r.fingerprint, q.fingerprint)
    /\ ScoreLE(r.formulas, q.formulas)
    /\ ScoreLE(r.keywords, q.keywords)
    /\ ScoreLE(r.numbers, q.numbers)

AllOne(r) ==
    IsOne(r.fingerprint) /\ IsOne(r.formulas) /\ IsOne(r.keywords) /\ IsOne(r.numbers)

\* C27: the combined score is 0.40*fingerprint + 0.35*formulas + 0.15*keywords
\* + 0.10*numbers; with the components in [0,1] it lies in [0,1], it is 1 only
\* when all four components are 1, and raising one component never lowers it.
C27_CombinedScore ==
    (last.op = "combined") =>
        /\ ScoreEq(last.scores.combined, WeightedSum(last.scores))
        /\ ScoreLE(<<0, 1>>, last.scores.combined)
        /\ ScoreLE(last.scores.combined, <<1, 1>>)
        /\ IsOne(last.scores.combined) => AllOne(last.scores)
        /\ ComponentsLE(last.scores, last.other)
              => ScoreLE(last.scores.combined, last.other.combined)

\* one component was raised from below 1 to 1, which made all four 1, and the
\* combined score rose with it to 1
C27_Witness ==
    /\ last.op = "combined"
    /\ ~AllOne(last.scores)
    /\ AllOne(last.other)
    /\ ~IsOne(last.scores.combined)
    /\ IsOne(last.other.combined)

\* C28: the set overlap of A and B is |A n B| / |A u B| when both are
\* non-empty and 0 when either is empty, two empty sets included; it is
\* symmetric, lies in [0,1], and is 1 exactly when A = B and A is non-empty.
C28_JaccardOverlap ==
    (last.op = "overlap") =>
        /\ (last.set1 # {} /\ last.set2 # {})
              => last.overlap[1] * Cardinality(last.set1 \cup last.set2)
                 = Cardinality(last.set1 \cap last.set2) * last.overlap[2]
        /\ (last.set1 = {} \/ last.set2 = {}) => last.overlap[1] = 0
        /\ last.overlap[2] > 0
        /\ last.overlap[1] * last.reverse[2] = last.reverse[1] * last.overlap[2]
        /\ 0 <= last.overlap[1] /\ last.overlap[1] <= last.overlap[2]
        /\ (last.overlap[1] = last.overlap[2])
              <=> (last.set1 = last.set2 /\ last.set1 # {})

\* the overlap of two sets that share some but not all of their items was
\* computed, and it lies strictly between 0 and 1
C28_Witness ==
    /\ last.op = "overlap"
    /\ last.set1 \cap last.set2 # {}
    /\ last.set1 # last.set2
    /\ 0 < last.overlap[1]
    /\ last.overlap[1] < last.overlap[2]

\* C29: when a question gets no cache hit and an answer is generated, an
\* unapproved cache entry with that question and that answer exists once the
\* request has completed.
C29_SpeculativeWrite ==
    [][(/\ pending # NoRequest
        /\ pending.cached_id = 0
        /\ pending.response = "generated"
        /\ embeddings
        /\ pending' = NoRequest
        /\ Len(interactions') = Len(interactions) + 1)
        => \E i \in Indexes(cache') :
              /\ cache'[i].question_text = pending.text
              /\ cache'[i].answer_text = pending.response
              /\ ~cache'[i].is_corrected]_vars

\* C30: after a successful correct-with-FAQ action on an interaction that had
\* no cache link, the cache entry created for the interaction's question is
\* approved with the corrected text and the interaction is linked to it, and
\* no entry that existed before has its answer text changed.
C30_CorrectWithFaqTransition ==
    [][(/\ last'.op = "correct_both"
        /\ last'.success
        /\ last'.failed = "none"
        /\ embeddings
        /\ last'.interaction_id \in 1..Len(interactions)
        /\ interactions[last'.interaction_id].cached_question_id = 0)
        => /\ \E i \in Indexes(cache') :
                /\ cache'[i].id \notin Ids(cache)
                /\ cache'[i].question_text
                       = interactions[last'.interaction_id].user_input
                /\ cache'[i].is_corrected
                /\ cache'[i].answer_text = last'.corrected_text
                /\ interactions'[last'.interaction_id].cached_question_id
                       = cache'[i].id
           /\ \A j \in Indexes(cache), k \in Indexes(cache') :
                cache[j].id = cache'[k].id
                    => cache'[k].answer_text = cache[j].answer_text]_vars

\* two corrections of two interactions that share the image hash, or have no
\* image and share the question text, with different corrected texts, have
\* both answered, no dependency having failed
ConcurrentCorrectionsDone ==
    /\ \A a \in Admins : calls[a].pc = "done" /\ calls[a].failed = "none"
    /\ calls[1].interaction_id # calls[2].interaction_id
    /\ calls[1].corrected_text # calls[2].corrected_text
    /\ calls[1].image_hash = calls[2].image_hash
    /\ calls[1].image_hash = None => calls[1].user_input = calls[2].user_input

\* C31: when two administrators concurrently correct two unlinked
\* interactions that share the image hash (or the question text) with
\* different corrected texts, each interaction ends linked to an approved
\* entry whose answer is the interaction's own corrected_text, and no approved
\* entry has an answer different from the corrected text of an interaction
\* linked to it.
C31_ConcurrentCorrections ==
    ConcurrentCorrectionsDone =>
        /\ \A j \in 1..Len(interactions) :
              /\ interactions[j].cached_question_id \in Ids(cache)
              /\ RowOf(cache, interactions[j].cached_question_id).is_corrected
              /\ RowOf(cache, interactions[j].cached_question_id).answer_text
                     = interactions[j].corrected_text
        /\ \A i \in Indexes(cache) : \A j \in 1..Len(interactions) :
              (cache[i].is_corrected /\ interactions[j].cached_question_id = cache[i].id)
                  => cache[i].answer_text = interactions[j].corrected_text

\* C32: whenever an approved entry with image hash h exists,
\* find_similar_question(text, h) returns an approved entry with image hash h
\* at layer 1, also when unapproved entries with the same hash exist and were
\* inserted or read more recently.
C32_HashLookupFindsApproved ==
    (/\ last.op = "find"
     /\ last.hash # None
     /\ embeddings
     /\ last.failed = "none"
     /\ \E i \in Indexes(cache) :
           cache[i].image_hash = last.hash /\ cache[i].is_corrected)
    => /\ last.layer = "image_hash"
       /\ last.result # NoRow
       /\ last.result.is_corrected
       /\ last.result.image_hash = last.hash

\* C33: for an approved pool entry whose question text is identical to the
\* incoming question text, the combined signature score is 1.0, and
\* find_similar_question returns a hit at layer 2 without a call of the
\* embedding service, also for a question without formula, number or keyword.
C33_IdenticalTextMatchesAtSignature ==
    (/\ last.op = "find"
     /\ last.hash = None
     /\ embeddings
     /\ last.failed = "none"
     /\ \E i \in 1..Min(Len(cache), PoolLimit) :
           cache[i].is_corrected /\ cache[i].question_text = last.text)
    => /\ SignatureScore(last.text, last.text)[1]
              = SignatureScore(last.text, last.text)[2]
       /\ last.layer = "signature"
       /\ last.result.question_text = last.text
       /\ last.embed_calls = 0

\* C34: when find_similar_question returns an approved entry E, the response
\* is E's answer text, no answer is generated, and the interaction logged for
\* the request has E's id as its cache link; when it returns none, the
\* interaction logged has no cache link.
C34_ServePath ==
    [][/\ (pending = NoRequest /\ pending' # NoRequest)
            => IF last'.result # NoRow
               THEN /\ last'.result.is_corrected
                    /\ pending'.response = last'.result.answer_text
                    /\ ~pending'.generated
                    /\ pending'.cached_id = last'.result.id
               ELSE pending'.cached_id = 0
       /\ (pending # NoRequest /\ Len(interactions') = Len(interactions) + 1)
            => /\ interactions'[Len(interactions')].cached_question_id
                      = pending.cached_id
               /\ interactions'[Len(interactions')].bot_response
                      = pending.response]_vars

\* a request was answered from an approved entry and logged with the id of
\* that entry
C34_Witness ==
    /\ last.op = "log"
    /\ last.cached_id # 0
    /\ interactions[last.interaction_id].cached_question_id = last.cached_id
    /\ interactions[last.interaction_id].bot_response = "corrected"

=============================================================================
